---- MODULE Spec2Model ----
(***************************************************************************)
(* Fed Monitor: the alert evaluator (src/src/alerts.py), the alert state   *)
(* tracker (src/src/database.py) and the part of the statistics calculator *)
(* (src/src/metrics.py) that names the stat columns the evaluator reads.   *)
(***************************************************************************)
EXTENDS Integers, Sequences, FiniteSets, TLC

VARIABLES
    config,       \* the parsed configuration: [alerts, metric_changes]
    hashOf,       \* per process: the str hash of this interpreter run (rule text -> integer)
    alert_state,  \* table alert_state: alert_id -> [state, last_value]; DOMAIN = rows present
    alerts_log,   \* table alerts_log: sequence of transition rows
    notified,     \* calls of notify_callback so far, in order
    printed,      \* lines written by print() in evaluate_rule
    job,          \* the arguments the caller gives every pass: [notify_callback, severity_filter]
    passNo,       \* number of evaluation passes started so far
    restarts,     \* number of process restarts so far
    hist,         \* history: per alert_id, the passes that processed it, with their triggered flag
    idsSeen,      \* history: per alert definition, the identities make_alert_id gave it so far
    crashed,      \* passes that ended with an exception leaving check_alerts_with_state
    caps,         \* what rule evaluation did beyond the whitelist: attr, call, io
    pc,           \* per process: position inside check_alerts_with_state
    cur,          \* per process: the pass in progress (panel, index of the alert, result, row read)
    ctxIn,        \* evaluate_alert called directly: the raw panel behind the df given
    ctxOut,       \* evaluate_alert called directly: the result returned
    shadow,       \* history: the store the same passes leave when the alerts whose rule
                  \* fails are taken out of the configuration, and the alerts that failed
    observations, \* table observations: the rows [series_key, date, value], in insertion order
    written,      \* history: the rows given to upsert_observations so far, in order
    loaded        \* the panels load_base_data built last: [start_date, end_date, plain, filled]

vars == <<config, hashOf, alert_state, alerts_log, notified, printed, job, passNo,
          restarts, hist, idsSeen, crashed, caps, pc, cur, ctxIn, ctxOut, shadow,
          observations, written, loaded>>

\* the observation store and what was built from it
storeVars == <<observations, written, loaded>>

\* the configuration, the alert tables and the evaluation passes
alertVars == <<config, hashOf, alert_state, alerts_log, notified, printed, job, passNo,
               restarts, hist, idsSeen, crashed, caps, pc, cur, ctxIn, ctxOut, shadow>>

-----------------------------------------------------------------------------
(* Bounds of the model *)

MaxPasses == 3      \* evaluation passes per behaviour
MaxRestarts == 1    \* process restarts per behaviour
MaxRows == 4        \* rows (dates) of a panel
MaxVal == 2         \* observations are at most MaxVal
MaxWindow == 3      \* rolling windows are at most MaxWindow rows
MaxFaults == 1      \* passes of a behaviour in which the store or the callback may fail

(* alerts.py:24, hash(rule) % 10000 *)
HashMod == 10000

-----------------------------------------------------------------------------
(* Values.  A panel cell or a Python value is a record [k, v]: k is the kind *)
(* and v the number when k = "num" (0 otherwise), so that any two values can *)
(* be compared.                                                              *)

Num(n) == [k |-> "num", v |-> n]
NaN == [k |-> "nan", v |-> 0]
PosInf == [k |-> "inf", v |-> 0]
NegInf == [k |-> "-inf", v |-> 0]
PyNone == [k |-> "none", v |-> 0]
PyBool(b) == [k |-> "bool", v |-> IF b THEN 1 ELSE 0]
PyObj(name) == [k |-> name, v |-> 0]

\* pd.notna / dropna: NaN (and None) are missing; +-inf are not
notna(x) == x.k \notin {"nan", "none"}

Range(s) == {s[i] : i \in DOMAIN s}

Max(S) == CHOOSE x \in S : \A y \in S : y <= x

-----------------------------------------------------------------------------
(* The panel (pandas DataFrame): n rows in date order, cols maps each column *)
(* name to its n cells.                                                      *)

EmptyPanel == [n |-> 0, cols |-> <<>>]

\* DataFrame.empty: any axis of length 0
IsEmpty(df) == df.n = 0 \/ DOMAIN df.cols = {}

\* mutant: dropna left out
ValidRows_KeepMissing(col) == DOMAIN col

\* positions of the non-missing cells of a column: series.dropna().index
ValidRows(col) == {i \in DOMAIN col : notna(col[i])}

\* Series.diff(periods)
SeriesDiff(s, p) ==
    [i \in DOMAIN s |->
        IF i - p \in DOMAIN s /\ s[i].k = "num" /\ s[i - p].k = "num"
        THEN Num(s[i].v - s[i - p].v)
        ELSE NaN]

\* exact quotient of integers a / b, b /= 0 (the bounded observations keep it integral)
Quot(a, b) ==
    LET q == (IF a < 0 THEN -a ELSE a) \div (IF b < 0 THEN -b ELSE b)
    IN  IF (a < 0) = (b < 0) THEN q ELSE -q

\* Series.pct_change(periods, fill_method=None) * 100: (cur / prev - 1) * 100 in floats
SeriesPctChange(s, p) ==
    [i \in DOMAIN s |->
        IF ~(i - p \in DOMAIN s /\ s[i].k = "num" /\ s[i - p].k = "num") THEN NaN
        ELSE LET c == s[i].v
                 b == s[i - p].v
             IN  IF b = 0
                 THEN (IF c = 0 THEN NaN ELSE IF c > 0 THEN PosInf ELSE NegInf)
                 ELSE Num(Quot((c - b) * 100, b))]

\* metrics.py calculate_changes: one column per change definition, named
\* f"{column}_{name}"; a later definition of the same name overwrites
RECURSIVE ChangesFrom(_, _, _, _)
ChangesFrom(series, column, defs, acc) ==
    IF defs = <<>> THEN acc
    ELSE LET d == Head(defs)
             name == column \o "_" \o d.name
             added ==
                 IF d.type = "diff" THEN (name :> SeriesDiff(series, d.periods)) @@ acc
                 ELSE IF d.type = "pct_change"
                      THEN (name :> SeriesPctChange(series, d.periods)) @@ acc
                      ELSE acc
         IN  ChangesFrom(series, column, Tail(defs), added)

calculate_changes(df, column, cfg) ==
    ChangesFrom(df.cols[column], column, cfg.metric_changes, <<>>)

-----------------------------------------------------------------------------
(* alerts.py get_alert_context *)

all_suffixes == <<"d1", "d5", "d20", "pct1", "pct5", "ma5", "ma20", "std20", "zscore20">>

\* the value the loop body stores for one suffix whose column exists: the cell
\* at latest_date if it is not missing, else the last non-missing cell
SuffixValue(df, col, latest_date) ==
    IF notna(df.cols[col][latest_date]) THEN df.cols[col][latest_date]
    ELSE df.cols[col][Max(ValidRows(df.cols[col]))]

get_alert_context(key, df) ==
    IF IsEmpty(df) \/ key \notin DOMAIN df.cols THEN <<>>
    ELSE LET series == ValidRows(df.cols[key])
         IN  IF series = {} THEN <<>>
             ELSE LET latest_date == Max(series)
                      latest_value == df.cols[key][latest_date]
                      stored == {s \in Range(all_suffixes) :
                                    /\ (key \o "_" \o s) \in DOMAIN df.cols
                                    /\ ValidRows(df.cols[key \o "_" \o s]) # {}}
                  IN  ("value" :> latest_value) @@
                      [s \in stored |-> SuffixValue(df, key \o "_" \o s, latest_date)]

-----------------------------------------------------------------------------
(* Rule texts and Python's parse of them (the first step of eval).  A node   *)
(* is a record with field t: Constant, Name, Attribute, Call, Compare, BinOp. *)

Constant(val) == [t |-> "Constant", value |-> val]
Name(id) == [t |-> "Name", id |-> id]
Attribute(value, attr) == [t |-> "Attribute", value |-> value, attr |-> attr]
Call(func, args) == [t |-> "Call", func |-> func, args |-> args]
Compare(left, op, right) == [t |-> "Compare", left |-> left, op |-> op, right |-> right]
BinOp(left, op, right) == [t |-> "BinOp", left |-> left, op |-> op, right |-> right]
SyntaxError == [t |-> "SyntaxError"]

PyInt(n) == [k |-> "pyint", v |-> n]

RuleTexts ==
    {"value > 1", "value < 1", "abs(value) > 1", "d1 > 0", "d2 > 0", "value >",
     "1 / 0 > value", "value / 0 > 1", "'a' > value", "open('f')",
     "value.real > 1", "value.is_integer()",
     "abs.__self__.open('f').read() != ''",
     "abs.__self__.__import__('sys').exit(1)"}

Parse(rule) ==
    CASE rule = "value > 1" -> Compare(Name("value"), ">", Constant(PyInt(1)))
      [] rule = "value < 1" -> Compare(Name("value"), "<", Constant(PyInt(1)))
      [] rule = "abs(value) > 1" ->
            Compare(Call(Name("abs"), <<Name("value")>>), ">", Constant(PyInt(1)))
      [] rule = "d1 > 0" -> Compare(Name("d1"), ">", Constant(PyInt(0)))
      [] rule = "d2 > 0" -> Compare(Name("d2"), ">", Constant(PyInt(0)))
      [] rule = "value >" -> SyntaxError
      [] rule = "1 / 0 > value" ->
            Compare(BinOp(Constant(PyInt(1)), "/", Constant(PyInt(0))), ">", Name("value"))
      [] rule = "value / 0 > 1" ->
            Compare(BinOp(Name("value"), "/", Constant(PyInt(0))), ">", Constant(PyInt(1)))
      [] rule = "'a' > value" -> Compare(Constant(PyObj("str:a")), ">", Name("value"))
      [] rule = "open('f')" -> Call(Name("open"), <<Constant(PyObj("str:f"))>>)
      [] rule = "value.real > 1" ->
            Compare(Attribute(Name("value"), "real"), ">", Constant(PyInt(1)))
      [] rule = "value.is_integer()" -> Call(Attribute(Name("value"), "is_integer"), <<>>)
      [] rule = "abs.__self__.open('f').read() != ''" ->
            Compare(Call(Attribute(Call(Attribute(Attribute(Name("abs"), "__self__"), "open"),
                                        <<Constant(PyObj("str:f"))>>), "read"), <<>>),
                    "!=", Constant(PyObj("str:")))
      [] rule = "abs.__self__.__import__('sys').exit(1)" ->
            Call(Attribute(Call(Attribute(Attribute(Name("abs"), "__self__"), "__import__"),
                                <<Constant(PyObj("str:sys"))>>), "exit"),
                 <<Constant(PyInt(1))>>)

-----------------------------------------------------------------------------
(* Python's evaluation of a parsed rule under eval(rule, {"__builtins__":    *)
(* safe_builtins}, context).  Context values (kind num, inf, -inf) are numpy *)
(* floats, literals are Python ints (kind pyint).                            *)

\* alerts.py:40-46
safe_builtins ==
    [abs |-> PyObj("builtin:abs"), min |-> PyObj("builtin:min"), max |-> PyObj("builtin:max"),
     True |-> [k |-> "pybool", v |-> 1], False |-> [k |-> "pybool", v |-> 0]]

Ok(val, used) == [exc |-> "none", val |-> val, caps |-> used]
Raise(e, used) == [exc |-> e, val |-> PyNone, caps |-> used]

NumLike(x) == x.k \in {"num", "pyint", "bool", "pybool", "inf", "-inf", "nan"}
IsPy(x) == x.k \in {"pyint", "pybool"}
Finite(x) == x.k \in {"num", "pyint", "bool", "pybool"}
Sign(x) == IF x.k = "inf" THEN 1 ELSE IF x.k = "-inf" THEN -1
           ELSE IF x.v > 0 THEN 1 ELSE IF x.v < 0 THEN -1 ELSE 0
SignedInf(sgn) == IF sgn > 0 THEN PosInf ELSE IF sgn < 0 THEN NegInf ELSE NaN
NumResult(a, b, n) == IF IsPy(a) /\ IsPy(b) THEN PyInt(n) ELSE Num(n)
Neg(x) == IF x.k = "inf" THEN NegInf ELSE IF x.k = "-inf" THEN PosInf
          ELSE IF x.k = "nan" THEN NaN ELSE [k |-> x.k, v |-> -x.v]

Lt(a, b) ==
    /\ a.k # "nan" /\ b.k # "nan"
    /\ \/ a.k = "-inf" /\ b.k # "-inf"
       \/ b.k = "inf" /\ a.k # "inf"
       \/ Finite(a) /\ Finite(b) /\ a.v < b.v

Eq(a, b) ==
    IF NumLike(a) /\ NumLike(b)
    THEN \/ Finite(a) /\ Finite(b) /\ a.v = b.v
         \/ a.k = b.k /\ a.k \in {"inf", "-inf"}
    ELSE a.k = b.k

Add(a, b) ==
    IF a.k = "nan" \/ b.k = "nan" THEN NaN
    ELSE IF ~Finite(a) /\ ~Finite(b) THEN (IF a.k = b.k THEN a ELSE NaN)
    ELSE IF ~Finite(a) THEN a
    ELSE IF ~Finite(b) THEN b
    ELSE NumResult(a, b, a.v + b.v)

Mul(a, b) ==
    IF a.k = "nan" \/ b.k = "nan" THEN NaN
    ELSE IF ~Finite(a) \/ ~Finite(b) THEN SignedInf(Sign(a) * Sign(b))
    ELSE NumResult(a, b, a.v * b.v)

\* a / b when b is not a Python zero divisor: numpy yields inf or nan on a zero
TrueDiv(a, b) ==
    IF a.k = "nan" \/ b.k = "nan" THEN NaN
    ELSE IF ~Finite(a) /\ ~Finite(b) THEN NaN
    ELSE IF ~Finite(a) THEN SignedInf(IF Sign(b) = 0 THEN Sign(a) ELSE Sign(a) * Sign(b))
    ELSE IF ~Finite(b) THEN Num(0)
    ELSE IF b.v = 0 THEN SignedInf(Sign(a))
    ELSE NumResult(a, b, Quot(a.v, b.v))

ApplyBinOp(op, a, b) ==
    IF ~NumLike(a) \/ ~NumLike(b) THEN Raise("TypeError", {})
    ELSE CASE op = "+" -> Ok(Add(a, b), {})
           [] op = "-" -> Ok(Add(a, Neg(b)), {})
           [] op = "*" -> Ok(Mul(a, b), {})
           [] op = "/" -> IF IsPy(a) /\ IsPy(b) /\ b.v = 0
                          THEN Raise("ZeroDivisionError", {})
                          ELSE Ok(TrueDiv(a, b), {})

ApplyCompare(op, a, b) ==
    LET res(t) == Ok([k |-> IF IsPy(a) /\ IsPy(b) THEN "pybool" ELSE "bool",
                      v |-> IF t THEN 1 ELSE 0], {})
    IN  IF op = "==" THEN res(Eq(a, b))
        ELSE IF op = "!=" THEN res(~Eq(a, b))
        ELSE IF ~NumLike(a) \/ ~NumLike(b) THEN Raise("TypeError", {})
        ELSE CASE op = "<" -> res(Lt(a, b))
               [] op = ">" -> res(Lt(b, a))
               [] op = "<=" -> res(Lt(a, b) \/ Eq(a, b))
               [] op = ">=" -> res(Lt(b, a) \/ Eq(a, b))

AttributeError == PyObj("AttributeError")

\* getattr(obj, attr) on the objects a rule can reach
GetAttr(obj, attr) ==
    CASE obj.k \in {"num", "inf", "-inf", "nan"} ->
            (CASE attr = "real" -> obj
               [] attr = "is_integer" -> PyObj("method:is_integer")
               [] OTHER -> AttributeError)
      [] obj.k \in {"builtin:abs", "builtin:min", "builtin:max"} ->
            (IF attr = "__self__" THEN PyObj("module:builtins") ELSE AttributeError)
      [] obj.k = "module:builtins" ->
            (CASE attr = "open" -> PyObj("builtin:open")
               [] attr = "__import__" -> PyObj("builtin:__import__")
               [] attr \in {"abs", "min", "max"} -> PyObj("builtin:" \o attr)
               [] OTHER -> AttributeError)
      [] obj.k = "module:sys" ->
            (IF attr = "exit" THEN PyObj("builtin:exit") ELSE AttributeError)
      [] obj.k = "file" -> (IF attr = "read" THEN PyObj("method:read") ELSE AttributeError)
      [] OTHER -> AttributeError

Whitelisted == {"builtin:abs", "builtin:min", "builtin:max"}

\* f(*args): the value or the exception, and what the call did beyond the whitelist
CallObj(f, args) ==
    LET used == IF f.k \in Whitelisted THEN {} ELSE {"call"}
    IN  CASE f.k = "builtin:abs" ->
                (IF Len(args) = 1 /\ NumLike(args[1])
                 THEN Ok(IF Sign(args[1]) < 0 THEN Neg(args[1]) ELSE args[1], {})
                 ELSE Raise("TypeError", {}))
          [] f.k = "builtin:min" ->
                (IF Len(args) = 2 /\ NumLike(args[1]) /\ NumLike(args[2])
                 THEN Ok(IF Lt(args[2], args[1]) THEN args[2] ELSE args[1], {})
                 ELSE Raise("TypeError", {}))
          [] f.k = "builtin:max" ->
                (IF Len(args) = 2 /\ NumLike(args[1]) /\ NumLike(args[2])
                 THEN Ok(IF Lt(args[1], args[2]) THEN args[2] ELSE args[1], {})
                 ELSE Raise("TypeError", {}))
          [] f.k = "method:is_integer" /\ Len(args) = 0 -> Ok(PyBool(TRUE), used)
          [] f.k = "builtin:open" /\ Len(args) = 1 -> Ok(PyObj("file"), used \cup {"io"})
          [] f.k = "method:read" /\ Len(args) = 0 -> Ok(PyObj("str:data"), used \cup {"io"})
          [] f.k = "builtin:__import__" /\ Len(args) = 1 /\ args[1].k = "str:sys" ->
                Ok(PyObj("module:sys"), used)
          [] f.k = "builtin:exit" -> Raise("SystemExit", used)
          [] OTHER -> Raise("TypeError", {})

\* sub-expressions evaluated left to right: the values, or the first exception
\* and what was done up to it
InOrder(results) ==
    LET bad == {i \in DOMAIN results : results[i].exc # "none"}
        stop == IF bad = {} THEN Len(results) ELSE CHOOSE i \in bad : \A j \in bad : i <= j
    IN  [exc |-> IF bad = {} THEN "none" ELSE results[stop].exc,
         vals |-> [i \in DOMAIN results |-> results[i].val],
         caps |-> UNION {results[i].caps : i \in 1..stop}]

\* the value of a sub-expression and what its operands did
WithCaps(x, used) == [x EXCEPT !.caps = used \cup x.caps]

\* o.attr, o evaluated
AttrResult(o, attr) ==
    IF o.exc # "none" THEN o
    ELSE IF GetAttr(o.val, attr) = AttributeError THEN Raise("AttributeError", o.caps)
    ELSE Ok(GetAttr(o.val, attr), o.caps \cup {"attr"})

\* f(args), f and the arguments evaluated
CallResult(a) ==
    IF a.exc # "none" THEN Raise(a.exc, a.caps)
    ELSE WithCaps(CallObj(Head(a.vals), Tail(a.vals)), a.caps)

\* left op right, both evaluated
OperatorResult(t, op, a) ==
    IF a.exc # "none" THEN Raise(a.exc, a.caps)
    ELSE IF t = "Compare" THEN WithCaps(ApplyCompare(op, a.vals[1], a.vals[2]), a.caps)
    ELSE WithCaps(ApplyBinOp(op, a.vals[1], a.vals[2]), a.caps)

RECURSIVE EvalNode(_, _)
EvalNode(node, context) ==
    CASE node.t = "Constant" -> Ok(node.value, {})
      [] node.t = "Name" ->
            \* locals (the context), then the builtins given; the globals hold nothing else
            (IF node.id \in DOMAIN context THEN Ok(context[node.id], {})
             ELSE IF node.id \in DOMAIN safe_builtins THEN Ok(safe_builtins[node.id], {})
             ELSE Raise("NameError", {}))
      [] node.t = "Attribute" -> AttrResult(EvalNode(node.value, context), node.attr)
      [] node.t = "Call" ->
            CallResult(InOrder(<<EvalNode(node.func, context)>> \o
                               [i \in DOMAIN node.args |-> EvalNode(node.args[i], context)]))
      [] node.t \in {"Compare", "BinOp"} ->
            OperatorResult(node.t, node.op,
                           InOrder(<<EvalNode(node.left, context),
                                     EvalNode(node.right, context)>>))

\* evaluation of the compiled rule
EvalParsed(tree, context) ==
    IF tree.t = "SyntaxError" THEN Raise("SyntaxError", {}) ELSE EvalNode(tree, context)

\* eval(): compile, then evaluate
PyEval(rule, context) == EvalParsed(Parse(rule), context)

\* bool(x)
Truthy(x) ==
    IF NumLike(x) THEN ~(Finite(x) /\ x.v = 0)
    ELSE x.k \notin {"none", "str:"}

\* exceptions derived from Exception; SystemExit derives from BaseException only
ExceptionClasses ==
    {"NameError", "SyntaxError", "ZeroDivisionError", "TypeError", "AttributeError"}

\* the try/except around eval: r is what eval did
Handled(rule, key, r) ==
    IF r.exc = "none"
    THEN [triggered |-> Truthy(r.val), printed |-> <<>>, exc |-> "none", caps |-> r.caps,
          caught |-> "none"]
    ELSE IF r.exc = "NameError"
    THEN [triggered |-> FALSE, printed |-> <<>>, exc |-> "none", caps |-> r.caps,
          caught |-> r.exc]
    ELSE IF r.exc \in ExceptionClasses
    THEN [triggered |-> FALSE,
          printed |-> <<[rule |-> rule, key |-> key, error |-> r.exc]>>,
          exc |-> "none", caps |-> r.caps, caught |-> r.exc]
    ELSE [triggered |-> FALSE, printed |-> <<>>, exc |-> r.exc, caps |-> r.caps,
          caught |-> "none"]

\* alerts.py evaluate_rule: [triggered, printed, exc, caps, caught]; exc is the
\* exception that leaves the function ("none" when it returns), caught the one
\* an except clause handled
evaluate_rule(rule, context, key) == Handled(rule, key, PyEval(rule, context))

-----------------------------------------------------------------------------
(* metrics.py calculate_derived: DataFrame.eval of the configured expressions *)

\* config.py derived, metric_rolling: absent from the file means none
derived(cfg) == IF "derived" \in DOMAIN cfg THEN cfg.derived ELSE <<>>
metric_rolling(cfg) == IF "metric_rolling" \in DOMAIN cfg THEN cfg.metric_rolling ELSE <<>>

ExprTexts ==
    {"effr - iorb", "spread * 2", "spread != spread", "bogus + 1", "effr /"}

\* the parse of a derived expression
ParseExpr(expr) ==
    CASE expr = "effr - iorb" -> BinOp(Name("effr"), "-", Name("iorb"))
      [] expr = "spread * 2" -> BinOp(Name("spread"), "*", Constant(PyInt(2)))
      [] expr = "spread != spread" -> Compare(Name("spread"), "!=", Name("spread"))
      [] expr = "bogus + 1" -> BinOp(Name("bogus"), "+", Constant(PyInt(1)))
      [] expr = "effr /" -> SyntaxError

\* left op right row by row, both sides evaluated to columns
ColumnResult(t, op, a, n) ==
    IF a.exc # "none" THEN Raise(a.exc, {})
    ELSE Ok([i \in 1..n |->
                IF t = "Compare" THEN ApplyCompare(op, a.vals[1][i], a.vals[2][i]).val
                ELSE ApplyBinOp(op, a.vals[1][i], a.vals[2][i]).val], {})

\* the column an expression evaluates to over the columns of df: a name is a
\* column of df or undefined, a literal stands for itself on every row
RECURSIVE EvalColumn(_, _)
EvalColumn(node, df) ==
    CASE node.t = "Constant" -> Ok([i \in 1..df.n |-> node.value], {})
      [] node.t = "Name" ->
            (IF node.id \in DOMAIN df.cols THEN Ok(df.cols[node.id], {})
             ELSE Raise("UndefinedVariableError", {}))
      [] node.t \in {"Compare", "BinOp"} ->
            ColumnResult(node.t, node.op,
                         InOrder(<<EvalColumn(node.left, df), EvalColumn(node.right, df)>>),
                         df.n)

\* DataFrame.eval(expr)
DataFrameEval(tree, df) ==
    IF tree.t = "SyntaxError" THEN Raise("SyntaxError", {}) ELSE EvalColumn(tree, df)

\* result[key] = column
SetColumn(df, key, column) ==
    [df EXCEPT !.cols = [name \in DOMAIN df.cols \cup {key} |->
                            IF name = key THEN column ELSE df.cols[name]]]

\* lines 69-75: the try/except around eval, r being what eval did
Assigned(result, key, r) ==
    IF r.exc = "none" THEN SetColumn(result, key, r.val)
    ELSE SetColumn(result, key, [i \in 1..result.n |-> NaN])

\* for derived_def in config.derived: result[key] = result.eval(expr)
RECURSIVE DerivedFrom(_, _)
DerivedFrom(result, defs) ==
    IF defs = <<>> THEN result
    ELSE DerivedFrom(Assigned(result, Head(defs).key,
                              DataFrameEval(ParseExpr(Head(defs).expr), result)),
                     Tail(defs))

\* metrics.py calculate_derived
calculate_derived(df, cfg) == DerivedFrom(df, derived(cfg))

-----------------------------------------------------------------------------
(* metrics.py calculate_rolling.  A mean is the fraction [k = "rat", v, d]   *)
(* (v / d), a standard deviation [k = "sqrt", v, d] (the square root of      *)
(* v / d) or the number 0, a z-score [k = "zscore", v, d, s] ((v / d) / s).  *)

RECURSIVE SumOver(_, _, _)
SumOver(s, from, to) == IF from > to THEN 0 ELSE s[to].v + SumOver(s, from, to - 1)

RECURSIVE SumSquaresOver(_, _, _)
SumSquaresOver(s, from, to) ==
    IF from > to THEN 0 ELSE s[to].v * s[to].v + SumSquaresOver(s, from, to - 1)

\* the window ending at row i holds window observations (min_periods = window)
FullWindow(s, i, window) ==
    /\ i - window + 1 \in DOMAIN s
    /\ \A j \in (i - window + 1)..i : s[j].k = "num"

\* Series.rolling(window).mean()
RollingMean(s, window) ==
    [i \in DOMAIN s |->
        IF FullWindow(s, i, window)
        THEN [k |-> "rat", v |-> SumOver(s, i - window + 1, i), d |-> window]
        ELSE NaN]

\* window times the sum of squared deviations from the mean of the window
Scatter(s, i, window) ==
    window * SumSquaresOver(s, i - window + 1, i)
        - SumOver(s, i - window + 1, i) * SumOver(s, i - window + 1, i)

\* mutant: the population standard deviation (ddof = 0)
RollingStd_Population(s, window) ==
    [i \in DOMAIN s |->
        IF FullWindow(s, i, window)
        THEN (IF Scatter(s, i, window) = 0 THEN Num(0)
              ELSE [k |-> "sqrt", v |-> Scatter(s, i, window), d |-> window * window])
        ELSE NaN]

\* Series.rolling(window).std(): the sample standard deviation (ddof = 1), which
\* a single observation does not have
RollingStd(s, window) ==
    [i \in DOMAIN s |->
        IF FullWindow(s, i, window) /\ window > 1
        THEN (IF Scatter(s, i, window) = 0 THEN Num(0)
              ELSE [k |-> "sqrt", v |-> Scatter(s, i, window), d |-> window * (window - 1)])
        ELSE NaN]

\* std.replace(0, np.nan)
ReplaceZero(col) == [i \in DOMAIN col |-> IF col[i] = Num(0) THEN NaN ELSE col[i]]

\* mutant: the value over the standard deviation, the mean not subtracted
Standardized_Uncentered(series, ma, std) ==
    [i \in DOMAIN series |->
        IF series[i].k # "num" \/ ma[i].k # "rat" \/ std[i].k = "nan" THEN NaN
        ELSE IF std[i] = Num(0) THEN SignedInf(series[i].v)
        ELSE [k |-> "zscore", v |-> series[i].v * ma[i].d, d |-> ma[i].d, s |-> std[i]]]

\* (series - ma) / std, row by row: a float division, which gives an infinity
\* or NaN on a zero divisor
Standardized(series, ma, std) ==
    [i \in DOMAIN series |->
        IF series[i].k # "num" \/ ma[i].k # "rat" \/ std[i].k = "nan" THEN NaN
        ELSE IF std[i] = Num(0) THEN SignedInf(series[i].v * ma[i].d - ma[i].v)
        ELSE [k |-> "zscore", v |-> series[i].v * ma[i].d - ma[i].v, d |-> ma[i].d,
              s |-> std[i]]]

\* the column of one rolling definition; none for a type that is not known
RollingColumn(series, d) ==
    IF d.type = "rolling_mean" THEN <<RollingMean(series, d.window)>>
    ELSE IF d.type = "rolling_std" THEN <<RollingStd(series, d.window)>>
    ELSE IF d.type = "zscore"
    THEN <<Standardized(series, RollingMean(series, d.window),
                        ReplaceZero(RollingStd(series, d.window)))>>
    ELSE <<>>

\* metrics.py calculate_rolling: one column per rolling definition, named
\* f"{column}_{name}"; a later definition of the same name overwrites
NamedColumn(column, d, made, acc) ==
    IF made = <<>> THEN acc ELSE ((column \o "_" \o d.name) :> made[1]) @@ acc

RECURSIVE RollingFrom(_, _, _, _)
RollingFrom(series, column, defs, acc) ==
    IF defs = <<>> THEN acc
    ELSE RollingFrom(series, column, Tail(defs),
                     NamedColumn(column, Head(defs), RollingColumn(series, Head(defs)), acc))

calculate_rolling(df, column, cfg) ==
    RollingFrom(df.cols[column], column, metric_rolling(cfg), <<>>)

-----------------------------------------------------------------------------
(* metrics.py calculate_all_metrics *)

\* mutant: the rolling stats left out
StatsOf_ChangesOnly(df, c, cfg) == calculate_changes(df, c, cfg)

\* the stat columns of one base column
StatsOf(df, c, cfg) == calculate_changes(df, c, cfg) @@ calculate_rolling(df, c, cfg)

\* lines 166-178: the stat columns of every column of df, joined to df (the
\* configurations of the model give no two columns the same name)
WithStats(df, cfg) ==
    [df EXCEPT !.cols =
        [name \in DOMAIN df.cols \cup UNION {DOMAIN StatsOf(df, c, cfg) : c \in DOMAIN df.cols} |->
            IF name \in DOMAIN df.cols THEN df.cols[name]
            ELSE StatsOf(df, CHOOSE c \in DOMAIN df.cols :
                                 name \in DOMAIN StatsOf(df, c, cfg), cfg)[name]]]

\* metrics.py calculate_all_metrics, raw being what load_base_data returned
calculate_all_metrics(raw, cfg) ==
    IF IsEmpty(raw) THEN raw ELSE WithStats(calculate_derived(raw, cfg), cfg)

-----------------------------------------------------------------------------
(* alerts.py make_alert_id and evaluate_alert *)

\* hash(rule): the str hash of the running interpreter, h
PyHash(h, rule) == h[rule]

make_alert_id(alert_def, h) ==
    alert_def.key \o ":" \o alert_def.severity \o ":"
        \o ToString(PyHash(h, alert_def.rule) % HashMod)

Absent == "<absent>"
NoDataMarker == "No data available"

\* the result dict as first built (lines 132-144)
NewResult(alert_def, h, context) ==
    [alert_id |-> make_alert_id(alert_def, h),
     key |-> alert_def.key,
     rule |-> alert_def.rule,
     severity |-> alert_def.severity,
     note |-> "",
     triggered |-> FALSE,
     value |-> IF "value" \in DOMAIN context THEN context["value"] ELSE PyNone,
     context |-> context,
     state_changed |-> FALSE,
     previous_state |-> "None",
     error |-> Absent]

\* result["triggered"] = evaluate_rule(...), r being what evaluate_rule did
Ruled(result, r) ==
    [result |-> [result EXCEPT !.triggered = r.triggered],
     printed |-> r.printed, exc |-> r.exc, caps |-> r.caps, caught |-> r.caught,
     ruled |-> TRUE]

EvaluateIn(alert_def, h, context) ==
    IF DOMAIN context = {}
    THEN [result |-> [NewResult(alert_def, h, context) EXCEPT !.error = NoDataMarker],
          printed |-> <<>>, exc |-> "none", caps |-> {}, caught |-> "none",
          ruled |-> FALSE]
    ELSE Ruled(NewResult(alert_def, h, context),
               evaluate_rule(alert_def.rule, context, alert_def.key))

\* [result, printed, exc, caps, caught, ruled]: the result dict, what
\* evaluate_rule did and whether it was called
evaluate_alert(alert_def, df, h) ==
    EvaluateIn(alert_def, h, get_alert_context(alert_def.key, df))

-----------------------------------------------------------------------------
(* database.py update_alert_state and log_alert_transition *)

NoRow == [state |-> "<no row>", last_value |-> PyNone]

\* SELECT state FROM alert_state WHERE alert_id = ?
SelectRow(tbl, alert_id) == IF alert_id \in DOMAIN tbl THEN tbl[alert_id] ELSE NoRow

\* mutant: a missing row read as state breach
PrevState_DefaultBreach(row) == IF row # NoRow THEN row.state ELSE "breach"

\* prev_state = row["state"] if row else "ok"
PrevState(row) == IF row # NoRow THEN row.state ELSE "ok"

\* mutant: a row whose state does not change is left as it is
WriteRow_OnChange(tbl, row, alert_id, state, value) ==
    IF row # NoRow
    THEN [tbl |-> IF alert_id \in DOMAIN tbl /\ tbl[alert_id].state # state
                  THEN [tbl EXCEPT ![alert_id] = [state |-> state, last_value |-> value]]
                  ELSE tbl,
          exc |-> "none"]
    ELSE IF alert_id \in DOMAIN tbl
    THEN [tbl |-> tbl, exc |-> "IntegrityError"]
    ELSE [tbl |-> (alert_id :> [state |-> state, last_value |-> value]) @@ tbl, exc |-> "none"]

\* the UPDATE (a row was read) or the INSERT (none was) and the commit: the new
\* table, or IntegrityError when the INSERT meets a row with this alert_id
WriteRow(tbl, row, alert_id, state, value) ==
    LET new == [state |-> state, last_value |-> value]
    IN  IF row # NoRow
        THEN [tbl |-> IF alert_id \in DOMAIN tbl THEN [tbl EXCEPT ![alert_id] = new] ELSE tbl,
              exc |-> "none"]
        ELSE IF alert_id \in DOMAIN tbl
        THEN [tbl |-> tbl, exc |-> "IntegrityError"]
        ELSE [tbl |-> (alert_id :> new) @@ tbl, exc |-> "none"]

\* mutant: the previous state returned whether or not it changed
Changed_Always(prev_state, state) == prev_state

\* return prev_state if prev_state != state else None
Changed(prev_state, state) == IF prev_state # state THEN prev_state ELSE "None"

\* what update_alert_state returns and leaves, row being the row it read
Updated(tbl, row, alert_id, state, value) ==
    [tbl |-> WriteRow(tbl, row, alert_id, state, value).tbl,
     exc |-> WriteRow(tbl, row, alert_id, state, value).exc,
     ret |-> Changed(PrevState(row), state)]

\* update_alert_state run without interruption: [tbl, ret, exc]
update_alert_state(tbl, alert_id, state, value) ==
    Updated(tbl, SelectRow(tbl, alert_id), alert_id, state, value)

\* the row log_alert_transition inserts; pass stands for triggered_at
LogRow(alert_id, severity, state_from, state_to, value, note, pass) ==
    [alert_id |-> alert_id, severity |-> severity, state_from |-> state_from,
     state_to |-> state_to, value |-> value, note |-> note, pass |-> pass]

\* mutant: the row put before the rows there are
log_alert_transition_First(log, alert_id, severity, state_from, state_to, value, note, pass) ==
    <<LogRow(alert_id, severity, state_from, state_to, value, note, pass)>> \o log

\* INSERT INTO alerts_log: the row gets the next id
log_alert_transition(log, alert_id, severity, state_from, state_to, value, note, pass) ==
    Append(log, LogRow(alert_id, severity, state_from, state_to, value, note, pass))

-----------------------------------------------------------------------------
(* alerts.py check_alerts_with_state, run without interruption.              *)
(* S is the store and the outputs: [alert_state, alerts_log, notified,       *)
(* printed, hist, idsSeen, caps, exc].  env is the call: [df, h, pass,       *)
(* notify_callback, severity_filter].                                        *)

\* mutant: an alert without data counted as in breach
NewState_BreachWithoutData(result) ==
    IF result.triggered \/ result.error = NoDataMarker THEN "breach" ELSE "ok"

\* new_state = "breach" if result["triggered"] else "ok"
NewState(result) == IF result.triggered THEN "breach" ELSE "ok"

\* mutant: the filter ignored
Skipped_Never(alert_def, env) == FALSE

\* if severity_filter and severity not in severity_filter: continue
Skipped(alert_def, env) ==
    env.severity_filter # {} /\ alert_def.severity \notin env.severity_filter

Remember(f, key, x) ==
    IF key \in DOMAIN f THEN [f EXCEPT ![key] = Append(@, x)] ELSE (key :> <<x>>) @@ f

Note(f, key, x) ==
    IF key \in DOMAIN f THEN [f EXCEPT ![key] = @ \cup {x}] ELSE (key :> {x}) @@ f

\* the call of notify_callback(result)
Notify(calls, result, env) ==
    Append(calls, [alert_id |-> result.alert_id, key |-> result.key, pass |-> env.pass])

\* what evaluating the alert left behind
Seen(S, alert_def, ev) ==
    [S EXCEPT !.printed = @ \o ev.printed,
              !.caps = @ \cup ev.caps,
              !.idsSeen = Note(@, alert_def, ev.result.alert_id)]

\* the alert definition a result is about
AlertOf(result) == [key |-> result.key, rule |-> result.rule, severity |-> result.severity]

\* no store operation and no callback of the call fails
NoFault == [alert |-> [key |-> "", rule |-> "", severity |-> ""], point |-> "none"]

\* the call is one in which the store or the callback fails at this point of
\* this alert: env.fault, where the caller says so
Fails(env, alert_def, point) ==
    /\ "fault" \in DOMAIN env
    /\ env.fault.point = point
    /\ env.fault.alert = alert_def

\* sqlite3.OperationalError out of update_alert_state: nothing was committed
UpdateFailed(tbl) == [tbl |-> tbl, exc |-> "OperationalError", ret |-> "None"]

\* lines 232-237: the callback, which may raise
Notified(S, result, env) ==
    IF NewState(result) = "breach" /\ env.notify_callback
    THEN [S EXCEPT !.notified = Notify(@, result, env),
                   !.exc = IF Fails(env, AlertOf(result), "notify") THEN "CallbackError" ELSE @]
    ELSE S

\* lines 217-237: the state changed from prev_state; log_alert_transition
\* appends the row or raises sqlite3.OperationalError
Transition(S, result, env, prev_state) ==
    IF Fails(env, AlertOf(result), "log") THEN [S EXCEPT !.exc = "OperationalError"]
    ELSE Notified([S EXCEPT !.alerts_log =
                      log_alert_transition(@, result.alert_id, result.severity, prev_state,
                                           NewState(result), result.value, result.note,
                                           env.pass)],
                  result, env)

\* history: one pass over an identity, written over persisted state `was`
HistEntry(ev, pass, tbl) ==
    [pass |-> pass, triggered |-> ev.result.triggered, caught |-> ev.caught,
     was |-> SelectRow(tbl, ev.result.alert_id).state]

\* lines 210-237, u being what update_alert_state did
Tracked(S, ev, env, u) ==
    IF u.exc # "none" THEN [S EXCEPT !.exc = u.exc]
    ELSE IF u.ret = "None"
    THEN [S EXCEPT !.alert_state = u.tbl,
                   !.hist = Remember(@, ev.result.alert_id,
                                     HistEntry(ev, env.pass, S.alert_state))]
    ELSE Transition([S EXCEPT !.alert_state = u.tbl,
                              !.hist = Remember(@, ev.result.alert_id,
                                                HistEntry(ev, env.pass, S.alert_state))],
                    ev.result, env, u.ret)

\* lines 205-237, ev being what evaluate_alert did
Evaluated(S, alert_def, env, ev) ==
    IF ev.exc # "none" THEN [Seen(S, alert_def, ev) EXCEPT !.exc = ev.exc]
    ELSE Tracked(Seen(S, alert_def, ev), ev, env,
                 IF Fails(env, alert_def, "update") THEN UpdateFailed(S.alert_state)
                 ELSE update_alert_state(S.alert_state, ev.result.alert_id,
                                         NewState(ev.result), ev.result.value))

\* the loop body for one alert definition (lines 198-237)
ProcessAlert(S, alert_def, env) ==
    IF Skipped(alert_def, env) THEN S
    ELSE Evaluated(S, alert_def, env, evaluate_alert(alert_def, env.df, env.h))

\* for alert_def in config.alerts, until an exception leaves the loop
RECURSIVE RunAlerts(_, _, _)
RunAlerts(S, alerts, env) ==
    IF alerts = <<>> \/ S.exc # "none" THEN S
    ELSE RunAlerts(ProcessAlert(S, Head(alerts), env), Tail(alerts), env)

check_alerts_with_state(S, cfg, env) == RunAlerts(S, cfg.alerts, env)

-----------------------------------------------------------------------------
(* The inputs: configurations, hashes and panels *)

Procs == {1, 2}

Severities == {"critical", "warning"}

\* values of hash(rule): two that agree modulo HashMod and one that does not
HashValues == {12345, 22345, 777}

AlertDefs(keys, rules) ==
    [key : keys, rule : rules, severity : Severities]

\* the alert lists of one or two definitions
AlertLists(defs) ==
    {<<a>> : a \in defs} \cup {<<a, b>> : a \in defs, b \in defs}

RulesOf(cfg) == {cfg.alerts[i].rule : i \in DOMAIN cfg.alerts}

\* metrics.changes of the shipped kind: a 1-row diff and a 1-row percent change
StdChanges ==
    <<[name |-> "d1", type |-> "diff", periods |-> 1],
      [name |-> "pct1", type |-> "pct_change", periods |-> 1]>>

\* a panel of one column
OneColumn(key, cells) == [n |-> Len(cells), cols |-> (key :> cells)]

StateRules == {"value > 1", "value < 1"}

StateConfigs ==
    [alerts : AlertLists(AlertDefs({"effr"}, StateRules)), metric_changes : {StdChanges}]

\* what load_base_data returns to a pass: nothing, or effr with a latest value
StatePanels ==
    {EmptyPanel} \cup {OneColumn("effr", <<Num(v)>>) : v \in {0, MaxVal}}

SeverityFilters == {{}, {"critical"}}

\* the callers: with or without a callback, with or without a filter
Jobs == [notify_callback : BOOLEAN, severity_filter : SeverityFilters]

\* the str hashes an interpreter run can have for the rules of the configuration
HashFns(cfg) ==
    {h \in [RulesOf(cfg) -> HashValues] :
        \A r1, r2 \in RulesOf(cfg) : r1 # r2 => h[r1] # h[r2]}

Env(raw, p) ==
    [df |-> calculate_all_metrics(raw, config), h |-> hashOf[p], pass |-> passNo + 1,
     notify_callback |-> job.notify_callback, severity_filter |-> job.severity_filter]

Idle == [i |-> 0]

StoreOf ==
    [alert_state |-> alert_state, alerts_log |-> alerts_log, notified |-> notified,
     printed |-> printed, hist |-> hist, idsSeen |-> idsSeen, caps |-> caps,
     exc |-> "none"]

\* the store and outputs after a call that ended in S
Commit(S) ==
    /\ alert_state' = S.alert_state
    /\ alerts_log' = S.alerts_log
    /\ notified' = S.notified
    /\ printed' = S.printed
    /\ hist' = S.hist
    /\ idsSeen' = S.idsSeen
    /\ caps' = S.caps
    /\ crashed' = IF S.exc # "none" THEN crashed \cup {passNo + 1} ELSE crashed

InitStore ==
    /\ alert_state = <<>>
    /\ alerts_log = <<>>
    /\ notified = <<>>
    /\ printed = <<>>
    /\ passNo = 0
    /\ restarts = 0
    /\ hist = <<>>
    /\ idsSeen = <<>>
    /\ crashed = {}
    /\ caps = {}
    /\ pc = [p \in Procs |-> "idle"]
    /\ cur = [p \in Procs |-> Idle]
    /\ ctxIn = Idle
    /\ ctxOut = Idle
    /\ shadow = [S |-> StoreOf, failed |-> {}]
    /\ observations = <<>>
    /\ written = <<>>
    /\ loaded = Idle

-----------------------------------------------------------------------------
(* Spec: one scheduler process runs evaluation passes one at a time and may  *)
(* be restarted between passes                                               *)

Init ==
    /\ InitStore
    /\ config \in StateConfigs
    /\ job \in Jobs
    /\ \E h \in HashFns(config) : hashOf = [p \in Procs |-> h]

\* one call of check_alerts_with_state by process 1, from start to return
Pass ==
    /\ passNo < MaxPasses
    /\ \E raw \in StatePanels :
          Commit(check_alerts_with_state(StoreOf, config, Env(raw, 1)))
    /\ passNo' = passNo + 1
    /\ UNCHANGED <<config, hashOf, job, restarts, pc, cur, ctxIn, ctxOut, shadow>>
    /\ UNCHANGED storeVars

\* the process exits and a new interpreter starts: its str hash is keyed anew
Restart ==
    /\ restarts < MaxRestarts
    /\ passNo < MaxPasses
    /\ \E h \in HashFns(config) : hashOf' = [hashOf EXCEPT ![1] = h]
    /\ restarts' = restarts + 1
    /\ UNCHANGED <<config, alert_state, alerts_log, notified, printed, job, passNo, hist,
                   idsSeen, crashed, caps, pc, cur, ctxIn, ctxOut, shadow>>
    /\ UNCHANGED storeVars

Next == Pass \/ Restart

Spec == Init /\ [][Next]_vars

-----------------------------------------------------------------------------
(* Properties of the state tracker *)

\* the rows of a table (a sequence) about one identity in one pass
RowsOf(seq, id, pass) == {j \in DOMAIN seq : seq[j].alert_id = id /\ seq[j].pass = pass}

RowsAbout(seq, id) == {j \in DOMAIN seq : seq[j].alert_id = id}

\* the triggered flag of the i-th pass over an identity; false before the first
Flag(id, i) == IF i = 0 THEN FALSE ELSE hist[id][i].triggered

Flags(id) == [i \in DOMAIN hist[id] |-> hist[id][i].triggered]

PassesOver(id) == {hist[id][i].pass : i \in DOMAIN hist[id]}

\* one alert definition carries the identity: no pass processed it twice
OneAlert(id) ==
    \A i, j \in DOMAIN hist[id] : i # j => hist[id][i].pass # hist[id][j].pass

\* C1: over the passes of one alert identity that starts unseen, the callback is
\* invoked exactly once in each pass whose flag is true and whose predecessor's
\* flag (false before the first pass) is false, and in no other pass; exactly
\* one alerts_log row is appended in each pass whose flag differs from the
\* previous one, and in no other pass.
C1_TransitionNotification ==
    \A id \in DOMAIN hist :
        OneAlert(id) =>
            /\ \A j \in RowsAbout(alerts_log, id) : alerts_log[j].pass \in PassesOver(id)
            /\ \A j \in RowsAbout(notified, id) : notified[j].pass \in PassesOver(id)
            /\ \A i \in DOMAIN hist[id] :
                  /\ Cardinality(RowsOf(alerts_log, id, hist[id][i].pass))
                        = IF Flag(id, i) # Flag(id, i - 1) THEN 1 ELSE 0
                  /\ job.notify_callback =>
                        Cardinality(RowsOf(notified, id, hist[id][i].pass))
                           = IF Flag(id, i) /\ ~Flag(id, i - 1) THEN 1 ELSE 0

\* an alert that flapped breach, ok, breach: notified twice, logged three times
C1_Witness ==
    \E id \in DOMAIN hist :
        /\ OneAlert(id)
        /\ job.notify_callback
        /\ Flags(id) = <<TRUE, FALSE, TRUE>>
        /\ Cardinality(RowsAbout(notified, id)) = 2
        /\ Cardinality(RowsAbout(alerts_log, id)) = 3

\* C3: make_alert_id gives one alert definition the same identity in every
\* process run and at every position of the alert list.
C3_IdentityStableAcrossRuns ==
    \A d \in DOMAIN idsSeen : Cardinality(idsSeen[d]) = 1

\* C4: two alert definitions with the same key and severity and different rule
\* text get different identities.
C4_ChangedRuleChangesIdentity ==
    \A i, j \in DOMAIN config.alerts :
        LET a == config.alerts[i]
            b == config.alerts[j]
        IN  (a.key = b.key /\ a.severity = b.severity /\ a.rule # b.rule)
                => make_alert_id(a, hashOf[1]) # make_alert_id(b, hashOf[1])

\* C5: in one evaluation pass at most one alerts_log row is appended and at most
\* one notification is sent for any one alert identity.
C5_OneTransitionPerPass ==
    \A id \in DOMAIN hist : \A p \in PassesOver(id) :
        /\ Cardinality(RowsOf(alerts_log, id, p)) <= 1
        /\ Cardinality(RowsOf(notified, id, p)) <= 1

FirstRow(seq, id) == seq[CHOOSE j \in RowsAbout(seq, id) : \A k \in RowsAbout(seq, id) : j <= k]

\* C6: an identity without a row is taken to be in state ok: after its first
\* pass a row exists; if that pass was not triggered nothing was logged or
\* notified and the row says ok; if it was triggered the first row logged for it
\* is ok -> breach in that pass (and the callback, if any, was invoked).
C6_NeverSeenIsOk ==
    \A id \in DOMAIN hist :
        /\ id \in DOMAIN alert_state
        /\ IF hist[id][1].triggered
           THEN /\ RowsAbout(alerts_log, id) # {}
                /\ FirstRow(alerts_log, id).state_from = "ok"
                /\ FirstRow(alerts_log, id).state_to = "breach"
                /\ FirstRow(alerts_log, id).pass = hist[id][1].pass
                /\ job.notify_callback => RowsOf(notified, id, hist[id][1].pass) # {}
           ELSE Len(hist[id]) = 1 =>
                   /\ RowsAbout(alerts_log, id) = {}
                   /\ RowsAbout(notified, id) = {}
                   /\ alert_state[id].state = "ok"

\* one identity first seen not triggered and another first seen triggered
C6_Witness ==
    \E id1, id2 \in DOMAIN hist :
        /\ Len(hist[id1]) = 1 /\ ~hist[id1][1].triggered
        /\ alert_state[id1].state = "ok"
        /\ hist[id2][1].triggered
        /\ RowsAbout(alerts_log, id2) # {}

-----------------------------------------------------------------------------
(* SpecConc: two processes (the scheduler's job_check_alerts and the          *)
(* check_alerts.py script) run passes against the same database.  Each        *)
(* statement of update_alert_state runs on its own: the SELECT opens no       *)
(* transaction, the UPDATE or INSERT and the commit follow it.                *)

ConcConfigs ==
    [alerts : {<<a>> : a \in AlertDefs({"effr"}, StateRules)}, metric_changes : {StdChanges}]

InitConc ==
    /\ InitStore
    /\ config \in ConcConfigs
    /\ job \in Jobs
    /\ \E h \in HashFns(config) : hashOf = [p \in Procs |-> h]

Goto(p, label, c) ==
    /\ pc' = [pc EXCEPT ![p] = label]
    /\ cur' = [cur EXCEPT ![p] = c]

\* the loop goes to the next alert definition, or the call returns
NextAlert(p) ==
    IF cur[p].i < Len(config.alerts)
    THEN Goto(p, "evaluate", [i |-> cur[p].i + 1, pass |-> cur[p].pass, df |-> cur[p].df])
    ELSE Goto(p, "idle", Idle)

\* check_alerts_with_state is called: lines 192-197
Begin(p) ==
    /\ pc[p] = "idle"
    /\ passNo < MaxPasses
    /\ \E raw \in StatePanels :
          Goto(p, "evaluate",
               [i |-> 1, pass |-> passNo + 1, df |-> calculate_all_metrics(raw, config)])
    /\ passNo' = passNo + 1
    /\ UNCHANGED <<config, hashOf, alert_state, alerts_log, notified, printed, job, restarts,
                   hist, idsSeen, crashed, caps, ctxIn, ctxOut, shadow>>
    /\ UNCHANGED storeVars

\* lines 204-208 done, ev being what evaluate_alert did
EvaluateDone(p, alert_def, ev) ==
    /\ printed' = printed \o ev.printed
    /\ caps' = caps \cup ev.caps
    /\ idsSeen' = Note(idsSeen, alert_def, ev.result.alert_id)
    /\ IF ev.exc # "none"
       THEN Goto(p, "idle", Idle) /\ crashed' = crashed \cup {cur[p].pass}
       ELSE Goto(p, "select", [cur[p] EXCEPT !.i = @] @@ [ev |-> ev]) /\ UNCHANGED crashed

\* lines 198-208: the filter and evaluate_alert
Evaluate(p) ==
    /\ pc[p] = "evaluate"
    /\ IF Skipped(config.alerts[cur[p].i], job)
       THEN NextAlert(p) /\ UNCHANGED <<printed, caps, idsSeen, crashed>>
       ELSE EvaluateDone(p, config.alerts[cur[p].i],
                         evaluate_alert(config.alerts[cur[p].i], cur[p].df, hashOf[p]))
    /\ UNCHANGED <<config, hashOf, alert_state, alerts_log, notified, job, passNo, restarts,
                   hist, ctxIn, ctxOut, shadow>>
    /\ UNCHANGED storeVars

\* database.py 324-326: the SELECT
Select(p) ==
    /\ pc[p] = "select"
    /\ Goto(p, "write",
            [cur[p] EXCEPT !.i = @] @@ [row |-> SelectRow(alert_state, cur[p].ev.result.alert_id)])
    /\ UNCHANGED <<config, hashOf, alert_state, alerts_log, notified, printed, job, passNo,
                   restarts, hist, idsSeen, crashed, caps, ctxIn, ctxOut, shadow>>
    /\ UNCHANGED storeVars

\* database.py 330-345 done, w being what the UPDATE or INSERT did
WriteDone(p, ev, w) ==
    IF w.exc # "none"
    THEN /\ Goto(p, "idle", Idle)
         /\ crashed' = crashed \cup {cur[p].pass}
         /\ UNCHANGED <<alert_state, hist>>
    ELSE /\ alert_state' = w.tbl
         /\ hist' = Remember(hist, ev.result.alert_id, HistEntry(ev, cur[p].pass, alert_state))
         /\ UNCHANGED crashed
         /\ IF Changed(PrevState(cur[p].row), NewState(ev.result)) = "None"
            THEN NextAlert(p)
            ELSE Goto(p, "log",
                      [cur[p] EXCEPT !.i = @] @@
                          [prev_state |-> Changed(PrevState(cur[p].row), NewState(ev.result))])

\* database.py 328-345: the UPDATE or INSERT, the commit and the return
Write(p) ==
    /\ pc[p] = "write"
    /\ WriteDone(p, cur[p].ev,
                 WriteRow(alert_state, cur[p].row, cur[p].ev.result.alert_id,
                          NewState(cur[p].ev.result), cur[p].ev.result.value))
    /\ UNCHANGED <<config, hashOf, alerts_log, notified, printed, job, passNo, restarts,
                   idsSeen, caps, ctxIn, ctxOut, shadow>>
    /\ UNCHANGED storeVars

\* alerts.py 217-230: log_alert_transition
Log(p) ==
    /\ pc[p] = "log"
    /\ alerts_log' =
          log_alert_transition(alerts_log, cur[p].ev.result.alert_id,
                               cur[p].ev.result.severity, cur[p].prev_state,
                               NewState(cur[p].ev.result), cur[p].ev.result.value,
                               cur[p].ev.result.note, cur[p].pass)
    /\ IF NewState(cur[p].ev.result) = "breach" /\ job.notify_callback
       THEN Goto(p, "notify", cur[p])
       ELSE NextAlert(p)
    /\ UNCHANGED <<config, hashOf, alert_state, notified, printed, job, passNo, restarts,
                   hist, idsSeen, crashed, caps, ctxIn, ctxOut, shadow>>
    /\ UNCHANGED storeVars

\* alerts.py 233-237: notify_callback(result)
NotifyCallback(p) ==
    /\ pc[p] = "notify"
    /\ notified' = Notify(notified, cur[p].ev.result, cur[p])
    /\ NextAlert(p)
    /\ UNCHANGED <<config, hashOf, alert_state, alerts_log, printed, job, passNo, restarts,
                   hist, idsSeen, crashed, caps, ctxIn, ctxOut, shadow>>
    /\ UNCHANGED storeVars

NextConc ==
    \E p \in Procs :
        \/ Begin(p)
        \/ Evaluate(p)
        \/ Select(p)
        \/ Write(p)
        \/ Log(p)
        \/ NotifyCallback(p)

SpecConc == InitConc /\ [][NextConc]_vars

\* the writes that took the persisted state of an identity from ok (or no row)
\* to breach
BreachWrites(id) ==
    {i \in DOMAIN hist[id] : hist[id][i].triggered /\ hist[id][i].was # "breach"}

BreachRows(id) ==
    {j \in RowsAbout(alerts_log, id) : alerts_log[j].state_to = "breach"}

\* C2: with passes interleaved at the statements of update_alert_state, no pass
\* fails, and once the passes have returned every ok -> breach change of the
\* persisted state of an identity has exactly one alerts_log row and (with a
\* callback) one notification.
C2_AtomicReadModifyWrite ==
    /\ crashed = {}
    /\ (\A p \in Procs : pc[p] = "idle") =>
          \A id \in DOMAIN hist :
              /\ Cardinality(BreachRows(id)) = Cardinality(BreachWrites(id))
              /\ job.notify_callback =>
                    Cardinality(RowsAbout(notified, id)) = Cardinality(BreachWrites(id))

-----------------------------------------------------------------------------
(* SpecRule: passes over configurations whose rules are any of the rule      *)
(* texts, among them malformed ones and ones that reach outside the          *)
(* whitelist                                                                 *)

RuleConfigs ==
    [alerts : {<<a, b>> : a, b \in AlertDefs({"effr"}, RuleTexts)} ,
     metric_changes : {StdChanges}]

\* what load_base_data returns to a pass: nothing, one observation, or two
RulePanels ==
    {EmptyPanel, OneColumn("effr", <<Num(MaxVal)>>), OneColumn("effr", <<Num(0), Num(MaxVal)>>)}

\* the rule of the alert is evaluated over df and eval raises
Failing(alert_def, df) ==
    /\ DOMAIN get_alert_context(alert_def.key, df) # {}
    /\ PyEval(alert_def.rule, get_alert_context(alert_def.key, df)).exc # "none"

\* the configuration with the alerts taken out whose rule fails over df
WithoutFailing(cfg, df) ==
    [cfg EXCEPT !.alerts = SelectSeq(@, LAMBDA a : ~Failing(a, df))]

\* the same pass over the configuration without the failing alerts
Shadowed(sh, cfg, env) ==
    [S |-> check_alerts_with_state(sh.S, WithoutFailing(cfg, env.df), env),
     failed |-> sh.failed \cup {a \in Range(cfg.alerts) : Failing(a, env.df)}]

InitRule ==
    /\ InitStore
    /\ config \in RuleConfigs
    /\ config.alerts[1] # config.alerts[2]
    /\ config.alerts[1].severity = "critical"
    /\ job \in Jobs
    /\ \E h \in HashFns(config) : hashOf = [p \in Procs |-> h]

\* one call of check_alerts_with_state by process 1, from start to return or
\* to the exception that ends it
PassRule ==
    /\ passNo < MaxPasses
    /\ \E raw \in RulePanels :
          /\ Commit(check_alerts_with_state(StoreOf, config, Env(raw, 1)))
          /\ shadow' = Shadowed(shadow, config, Env(raw, 1))
    /\ passNo' = passNo + 1
    /\ UNCHANGED <<config, hashOf, job, restarts, pc, cur, ctxIn, ctxOut>>
    /\ UNCHANGED storeVars

NextRule == PassRule

SpecRule == InitRule /\ [][NextRule]_vars

\* the lines print() wrote about a rule
PrintedAbout(rule) == {i \in DOMAIN printed : printed[i].rule = rule}

\* the rows of a table about an identity, in order
About(seq, id) == SelectSeq(seq, LAMBDA r : r.alert_id = id)

\* C7: no exception leaves a pass; a rule that raised NameError left the alert
\* not triggered and printed nothing, a rule that raised anything else left it
\* not triggered and printed the error; and for every alert whose rule never
\* failed the persisted state, the alerts_log rows and the notifications are
\* those of the same passes run without the failing alerts.
C7_BrokenRuleIsContained ==
    /\ crashed = {}
    /\ \A id \in DOMAIN hist : \A i \in DOMAIN hist[id] :
          hist[id][i].caught # "none" =>
              /\ ~hist[id][i].triggered
              /\ \A a \in Range(config.alerts) :
                    (make_alert_id(a, hashOf[1]) = id /\ a \in shadow.failed) =>
                        \/ /\ hist[id][i].caught = "NameError"
                           /\ \A j \in PrintedAbout(a.rule) : printed[j].error # "NameError"
                        \/ /\ hist[id][i].caught # "NameError"
                           /\ \E j \in PrintedAbout(a.rule) :
                                 printed[j].error = hist[id][i].caught
                        \/ \E b \in Range(config.alerts) :
                              b # a /\ make_alert_id(b, hashOf[1]) = id
    /\ \A a \in Range(config.alerts) \ shadow.failed :
          LET id == make_alert_id(a, hashOf[1])
          IN  /\ SelectRow(alert_state, id) = SelectRow(shadow.S.alert_state, id)
              /\ About(alerts_log, id) = About(shadow.S.alerts_log, id)
              /\ About(notified, id) = About(shadow.S.notified, id)

\* C8: rule evaluation never performs an attribute access, a call of a function
\* other than abs, min and max, or I/O.
C8_SandboxExposesNothingElse == caps = {}

-----------------------------------------------------------------------------
(* SpecCtx: evaluate_alert called on the panel calculate_all_metrics makes   *)
(* of any raw panel of at most MaxRows dates                                 *)

\* observations: the values up to MaxVal whose percent changes are whole numbers
Observations == {0} \cup {v \in 1..MaxVal : 100 % v = 0}

Cells == {NaN} \cup {Num(v) : v \in Observations}

CtxPanels ==
    {EmptyPanel} \cup
    UNION {{OneColumn("effr", cells) : cells \in [1..n -> Cells]} : n \in 0..MaxRows}

CtxRules == {"value > 1", "d1 > 0", "d2 > 0", "value >"}

\* metrics.changes: the shipped kind, or a 2-row diff named d2
CtxChanges ==
    {StdChanges, <<[name |-> "d2", type |-> "diff", periods |-> 2]>>}

CtxConfigs ==
    [alerts : {<<a>> : a \in [key : {"effr", "sofr"}, rule : CtxRules, severity : {"critical"}]},
     metric_changes : CtxChanges]

InitCtx ==
    /\ InitStore
    /\ config \in CtxConfigs
    /\ job \in {[notify_callback |-> FALSE, severity_filter |-> {}]}
    /\ \E h \in HashFns(config) : h[config.alerts[1].rule] = 777 /\ hashOf = [p \in Procs |-> h]

\* the panel is loaded and the statistics computed
LoadPanel ==
    /\ ctxIn = Idle
    /\ \E raw \in CtxPanels : ctxIn' = [raw |-> raw, df |-> calculate_all_metrics(raw, config)]
    /\ UNCHANGED <<config, hashOf, alert_state, alerts_log, notified, printed, job, passNo,
                   restarts, hist, idsSeen, crashed, caps, pc, cur, ctxOut, shadow>>
    /\ UNCHANGED storeVars

\* evaluate_alert(alert_def, df) as evaluate_all_alerts calls it
CallEvaluateAlert ==
    /\ ctxIn # Idle
    /\ ctxOut = Idle
    /\ ctxOut' = evaluate_alert(config.alerts[1], ctxIn.df, hashOf[1])
    /\ UNCHANGED <<config, hashOf, alert_state, alerts_log, notified, printed, job, passNo,
                   restarts, hist, idsSeen, crashed, caps, pc, cur, ctxIn, shadow>>
    /\ UNCHANGED storeVars

NextCtx == LoadPanel \/ CallEvaluateAlert

SpecCtx == InitCtx /\ [][NextCtx]_vars

\* the dates at which the raw panel has an observation of the alert's metric
Observed ==
    IF config.alerts[1].key \in DOMAIN ctxIn.raw.cols
    THEN {i \in 1..ctxIn.raw.n : ctxIn.raw.cols[config.alerts[1].key][i].k \notin {"nan", "none"}}
    ELSE {}

\* C9: a metric whose column is absent or holds no observation gets the marker
\* 'No data available', triggered false, no value, and its rule is not
\* evaluated; a metric with an observation never gets the marker.
C9_NoDataMarker ==
    ctxOut # Idle =>
        IF Observed = {}
        THEN /\ ctxOut.result.error = NoDataMarker
             /\ ~ctxOut.result.triggered
             /\ ctxOut.result.value = PyNone
             /\ ~ctxOut.ruled
             /\ ctxOut.printed = <<>>
        ELSE /\ ctxOut.result.error = Absent
             /\ ctxOut.ruled

\* a column of missing cells only, under a rule whose evaluation would print
C9_Witness ==
    /\ ctxOut # Idle
    /\ config.alerts[1].rule = "value >"
    /\ config.alerts[1].key \in DOMAIN ctxIn.raw.cols
    /\ ctxIn.raw.n = 2
    /\ Observed = {}
    /\ ctxOut.result.error = NoDataMarker

\* the column a change definition stands for, computed from the raw panel
StatColumn(d) ==
    IF d.type = "diff" THEN SeriesDiff(ctxIn.raw.cols[config.alerts[1].key], d.periods)
    ELSE SeriesPctChange(ctxIn.raw.cols[config.alerts[1].key], d.periods)

Available(col) == {i \in DOMAIN col : col[i].k # "nan"}

\* C10: the context maps value to the observation at the latest observed date
\* and every configured stat name that has a non-missing value to the most
\* recent one.
C10_ContextHoldsConfiguredStats ==
    (ctxOut # Idle /\ Observed # {}) =>
        /\ "value" \in DOMAIN ctxOut.result.context
        /\ ctxOut.result.context["value"]
              = ctxIn.raw.cols[config.alerts[1].key][Max(Observed)]
        /\ \A d \in Range(config.metric_changes) :
              Available(StatColumn(d)) # {} =>
                  /\ d.name \in DOMAIN ctxOut.result.context
                  /\ ctxOut.result.context[d.name]
                        = StatColumn(d)[Max(Available(StatColumn(d)))]

-----------------------------------------------------------------------------
(* database.py: the observation store.  A date is a calendar day (the text   *)
(* 'YYYY-MM-DD', here its day number); a timestamp counts instants, of which *)
(* a day has TicksPerDay.                                                    *)

MaxDay == 3         \* calendar days 1..MaxDay
MaxWrites == 3      \* rows given to upsert_observations per behaviour
TicksPerDay == 2    \* instants of a day that a timestamp tells apart

NoDate == 0

\* pd.to_datetime(x).dt.strftime("%Y-%m-%d"): the calendar day of a timestamp
StrfDate(ts) == ts \div TicksPerDay

\* pd.to_datetime of a stored date: midnight of that day
ToDatetime(date) == date * TicksPerDay

\* mutant: INSERT OR IGNORE, a conflicting row keeps its value
UpsertRow_IgnoreConflict(tbl, row) ==
    IF \E i \in DOMAIN tbl : tbl[i].series_key = row.series_key /\ tbl[i].date = row.date
    THEN tbl
    ELSE Append(tbl, row)

\* INSERT ... ON CONFLICT(series_key, date) DO UPDATE SET value = excluded.value
UpsertRow(tbl, row) ==
    IF \E i \in DOMAIN tbl : tbl[i].series_key = row.series_key /\ tbl[i].date = row.date
    THEN [i \in DOMAIN tbl |->
             IF tbl[i].series_key = row.series_key /\ tbl[i].date = row.date
             THEN [tbl[i] EXCEPT !.value = row.value]
             ELSE tbl[i]]
    ELSE Append(tbl, row)

\* cursor.executemany: the rows one after the other
RECURSIVE ExecuteMany(_, _)
ExecuteMany(tbl, rows) ==
    IF rows = <<>> THEN tbl ELSE ExecuteMany(UpsertRow(tbl, Head(rows)), Tail(rows))

\* database.py upsert_observations; df is the frame given: rows [date, value],
\* date a timestamp
upsert_observations(tbl, series_key, df) ==
    IF df = <<>> THEN [tbl |-> tbl, ret |-> 0]
    ELSE [tbl |-> ExecuteMany(tbl, [i \in DOMAIN df |->
                                       [series_key |-> series_key,
                                        date |-> StrfDate(df[i].date),
                                        value |-> df[i].value]]),
          ret |-> Len(df)]

\* the elements of a set of numbers in ascending order
Ascending(S) ==
    [i \in 1..Cardinality(S) |-> CHOOSE d \in S : Cardinality({e \in S : e <= d}) = i]

\* SELECT date, value FROM observations WHERE series_key = ? [AND date >= ?]
\* [AND date <= ?]
InRange(tbl, series_key, start_date, end_date) ==
    SelectSeq(tbl, LAMBDA r : /\ r.series_key = series_key
                              /\ (start_date # NoDate => r.date >= start_date)
                              /\ (end_date # NoDate => r.date <= end_date))

\* df["date"] = pd.to_datetime(df["date"]); df.set_index("date")
DateIndexed(rows) ==
    [i \in DOMAIN rows |-> [date |-> ToDatetime(rows[i].date), value |-> rows[i].value]]

\* database.py get_observations: the rows of a series in range, ORDER BY date,
\* as a frame [date, value] indexed by timestamp
get_observations(tbl, series_key, start_date, end_date) ==
    DateIndexed(SortSeq(InRange(tbl, series_key, start_date, end_date),
                        LAMBDA a, b : a.date < b.date))

\* pd.DataFrame(dfs).sort_index(): the union of the dates, one column per series
WideFrame(dfs, index) ==
    [n |-> Len(index),
     cols |-> [k \in DOMAIN dfs |->
                  [i \in DOMAIN index |->
                      IF \E j \in DOMAIN dfs[k] : dfs[k][j].date = index[i]
                      THEN dfs[k][CHOOSE j \in DOMAIN dfs[k] : dfs[k][j].date = index[i]].value
                      ELSE NaN]],
     index |-> index]

\* mutant: a series without rows keeps its column
NonEmptyFrames_KeepAll(frames) == frames

\* the series that have rows (dfs of get_all_observations)
NonEmptyFrames(frames) == [k \in {key \in DOMAIN frames : frames[key] # <<>>} |-> frames[k]]

AllDates(dfs) == UNION {{dfs[k][j].date : j \in DOMAIN dfs[k]} : k \in DOMAIN dfs}

\* pd.DataFrame()
EmptyFrame == [n |-> 0, cols |-> <<>>, index |-> <<>>]

Combined(dfs) == IF DOMAIN dfs = {} THEN EmptyFrame ELSE WideFrame(dfs, Ascending(AllDates(dfs)))

\* database.py get_all_observations
get_all_observations(tbl, keys, start_date, end_date) ==
    Combined(NonEmptyFrames([k \in keys |-> get_observations(tbl, k, start_date, end_date)]))

\* mutant: the frame is not resampled, only the days of the index remain
Asfreq_KeepIndex(df) == df

\* df.asfreq("D"): every day from the first to the last index date; a day
\* that is not in the index gets NaN
Asfreq(df) ==
    [n |-> (df.index[df.n] - df.index[1]) \div TicksPerDay + 1,
     cols |-> [k \in DOMAIN df.cols |->
                  [i \in 1..((df.index[df.n] - df.index[1]) \div TicksPerDay + 1) |->
                      IF \E j \in 1..df.n : df.index[j] = df.index[1] + (i - 1) * TicksPerDay
                      THEN df.cols[k][CHOOSE j \in 1..df.n :
                                         df.index[j] = df.index[1] + (i - 1) * TicksPerDay]
                      ELSE NaN]],
     index |-> [i \in 1..((df.index[df.n] - df.index[1]) \div TicksPerDay + 1) |->
                   df.index[1] + (i - 1) * TicksPerDay]]

\* mutant: every cell after the first takes the cell above it
Ffill_Shift(df) ==
    [df EXCEPT !.cols =
        [k \in DOMAIN df.cols |->
            [i \in 1..df.n |-> IF i = 1 THEN df.cols[k][i] ELSE df.cols[k][i - 1]]]]

\* df.ffill(): a missing cell takes the last non-missing cell above it
Ffill(df) ==
    [df EXCEPT !.cols =
        [k \in DOMAIN df.cols |->
            [i \in 1..df.n |->
                IF notna(df.cols[k][i]) \/ {j \in 1..i : notna(df.cols[k][j])} = {}
                THEN df.cols[k][i]
                ELSE df.cols[k][Max({j \in 1..i : notna(df.cols[k][j])})]]]]

\* config.py series_keys
series_keys(cfg) == {cfg.series[i].key : i \in DOMAIN cfg.series}

\* lines 41-49 of load_base_data, df being what get_all_observations returned
Filled(df, ffill) == IF IsEmpty(df) THEN df ELSE IF ffill THEN Ffill(Asfreq(df)) ELSE df

\* metrics.py load_base_data
load_base_data(tbl, cfg, start_date, end_date, ffill) ==
    Filled(get_all_observations(tbl, series_keys(cfg), start_date, end_date), ffill)

-----------------------------------------------------------------------------
(* SpecStore: observations are upserted, then the panel is built under both  *)
(* fill policies                                                             *)

SeriesDefs == <<[key |-> "effr"], [key |-> "iorb"]>>

StoreConfigs == {[alerts |-> <<>>, metric_changes |-> <<>>, series |-> SeriesDefs]}

Timestamps == TicksPerDay..(TicksPerDay * (MaxDay + 1) - 1)

\* the frames fetch_series hands over: rows [date, value] with a value
InputFrames ==
    UNION {[1..n -> [date : Timestamps, value : {Num(v) : v \in Observations}]] : n \in 0..2}

\* start_date and end_date: not given, or a day inside the range of days
DateArgs == {NoDate, MaxDay - 1}

InitObs ==
    /\ InitStore
    /\ config \in StoreConfigs
    /\ job = [notify_callback |-> FALSE, severity_filter |-> {}]
    /\ hashOf = [p \in Procs |-> <<>>]

\* fred_client.fetch_series: upsert_observations(series_key, df)
UpsertObservations ==
    /\ loaded = Idle
    /\ \E key \in series_keys(config), df \in InputFrames :
          /\ Len(written) + Len(df) <= MaxWrites
          /\ observations' = upsert_observations(observations, key, df).tbl
          /\ written' = written \o [i \in DOMAIN df |->
                                      [series_key |-> key, date |-> df[i].date,
                                       value |-> df[i].value]]
    /\ UNCHANGED loaded
    /\ UNCHANGED alertVars

\* load_base_data(start_date, end_date, ffill) for ffill False and True
LoadBaseData ==
    /\ loaded = Idle
    /\ \E start_date \in DateArgs, end_date \in DateArgs :
          loaded' = [start_date |-> start_date, end_date |-> end_date,
                     plain |-> load_base_data(observations, config, start_date, end_date, FALSE),
                     filled |-> load_base_data(observations, config, start_date, end_date, TRUE)]
    /\ UNCHANGED <<observations, written>>
    /\ UNCHANGED alertVars

NextObs == UpsertObservations \/ LoadBaseData

SpecStore == InitObs /\ [][NextObs]_vars

\* the last value written for a series and calendar day
WrittenTo(key, day) ==
    {i \in DOMAIN written : written[i].series_key = key /\ written[i].date \div TicksPerDay = day}

StoredAt(key, day) ==
    {i \in DOMAIN observations :
        observations[i].series_key = key /\ observations[i].date = day}

\* C13: the store holds exactly one row per (series key, date) ever written,
\* its value is the one written last, and no other row; so writing a row again
\* changes neither the row count nor the values.
C13_IdempotentUpsert ==
    /\ \A i \in DOMAIN written :
          LET key == written[i].series_key
              day == written[i].date \div TicksPerDay
          IN  /\ Cardinality(StoredAt(key, day)) = 1
              /\ \A j \in StoredAt(key, day) :
                    observations[j].value = written[Max(WrittenTo(key, day))].value
    /\ \A j \in DOMAIN observations :
          WrittenTo(observations[j].series_key, observations[j].date) # {}

\* one (series, day) written with a value, overwritten, and the last value
\* ingested once more: one row
C13_Witness ==
    \E i, j, k \in DOMAIN written :
        /\ i < j /\ j < k
        /\ written[i].series_key = written[j].series_key
        /\ written[j].series_key = written[k].series_key
        /\ written[i].date \div TicksPerDay = written[j].date \div TicksPerDay
        /\ written[j].date \div TicksPerDay = written[k].date \div TicksPerDay
        /\ written[i].value # written[j].value
        /\ written[j].value = written[k].value
        /\ Len(observations) = 1
        /\ observations[1].value = written[k].value

\* the rows of the store of a series inside the range asked for
RowsInRange(key) ==
    {j \in DOMAIN observations :
        /\ observations[j].series_key = key
        /\ (loaded.start_date # NoDate => observations[j].date >= loaded.start_date)
        /\ (loaded.end_date # NoDate => observations[j].date <= loaded.end_date)}

DaysInRange(key) == {observations[j].date : j \in RowsInRange(key)}

AllDaysInRange == UNION {DaysInRange(key) : key \in series_keys(config)}

\* the day an index entry of a panel stands for
DayOf(ts) == ts \div TicksPerDay

\* a panel is a table: its columns have one cell per index entry, in date order
WellFormed(df) ==
    /\ df.n = Len(df.index)
    /\ \A k \in DOMAIN df.cols : DOMAIN df.cols[k] = 1..df.n
    /\ \A i, j \in 1..df.n : i < j => df.index[i] < df.index[j]
    /\ \A i \in 1..df.n : df.index[i] = DayOf(df.index[i]) * TicksPerDay

\* the observation of a series on a day in range, or no value
ObservedOn(key, day) ==
    IF day \in DaysInRange(key)
    THEN observations[CHOOSE j \in RowsInRange(key) : observations[j].date = day].value
    ELSE NaN

\* C14: with forward-fill disabled the panel has one row per day on which a
\* requested series has an observation in range, in date order, one column per
\* requested series with an observation in range, each cell the observation of
\* that day or no value; with no observation in range the panel is empty.
C14_PlainPanel ==
    loaded # Idle =>
        /\ WellFormed(loaded.plain)
        /\ {DayOf(loaded.plain.index[i]) : i \in 1..loaded.plain.n} = AllDaysInRange
        /\ DOMAIN loaded.plain.cols = {k \in series_keys(config) : DaysInRange(k) # {}}
        /\ \A k \in DOMAIN loaded.plain.cols : \A i \in 1..loaded.plain.n :
              loaded.plain.cols[k][i] = ObservedOn(k, DayOf(loaded.plain.index[i]))
        /\ AllDaysInRange = {} => IsEmpty(loaded.plain)

\* two series observed on different days, one row of the store outside the
\* range: a panel of two rows with gaps
C14_Witness ==
    /\ loaded # Idle
    /\ loaded.start_date # NoDate
    /\ Len(observations) = 3
    /\ loaded.plain.n = 2
    /\ DOMAIN loaded.plain.cols = {"effr", "iorb"}
    /\ loaded.plain.cols["effr"][1] = NaN
    /\ loaded.plain.cols["iorb"][2] = NaN

\* the days in range on which a series has an observation, up to a day
DaysUpTo(key, day) == {d \in DaysInRange(key) : d <= day}

\* C15: with forward-fill enabled and observations in range, the rows are every
\* calendar day from the earliest to the latest observed day in range, and each
\* cell is the series' most recent observation in range at or before that day,
\* or no value when it has none.
C15_FilledPanel ==
    (loaded # Idle /\ AllDaysInRange # {}) =>
        /\ WellFormed(loaded.filled)
        /\ {DayOf(loaded.filled.index[i]) : i \in 1..loaded.filled.n}
              = {d \in 1..MaxDay : /\ \E e \in AllDaysInRange : e <= d
                                   /\ \E e \in AllDaysInRange : d <= e}
        /\ DOMAIN loaded.filled.cols = {k \in series_keys(config) : DaysInRange(k) # {}}
        /\ \A k \in DOMAIN loaded.filled.cols : \A i \in 1..loaded.filled.n :
              LET day == DayOf(loaded.filled.index[i])
              IN  loaded.filled.cols[k][i] =
                     IF DaysUpTo(k, day) = {} THEN NaN
                     ELSE ObservedOn(k, Max(DaysUpTo(k, day)))

\* a series observed on the first and the last day only: the day between is a
\* row, filled with the first observation; the other series starts later
C15_Witness ==
    /\ loaded # Idle
    /\ loaded.filled.n = MaxDay
    /\ DOMAIN loaded.filled.cols = {"effr", "iorb"}
    /\ DaysInRange("effr") = {1, MaxDay}
    /\ loaded.filled.cols["effr"][2] = loaded.filled.cols["effr"][1]
    /\ loaded.filled.cols["effr"][MaxDay] # loaded.filled.cols["effr"][1]
    /\ loaded.filled.cols["iorb"][1] = NaN

\* the rows of the two panels that stand for the same date
CommonRows ==
    {<<i, j>> \in (1..loaded.plain.n) \X (1..loaded.filled.n) :
        loaded.plain.index[i] = loaded.filled.index[j]}

\* C16 as stated: at every date that is a row of both panels the two panels
\* hold the same cell in every raw series column.
C16_FillPolicyEquivalence ==
    loaded # Idle =>
        \A r \in CommonRows : \A k \in DOMAIN loaded.plain.cols :
            /\ k \in DOMAIN loaded.filled.cols
            /\ loaded.filled.cols[k][r[2]] = loaded.plain.cols[k][r[1]]

\* C16 amended: at every date that is a row of both panels the two panels hold
\* the same value in every raw series column in which the non-filled panel has
\* a value at that date.
C16_FillPolicyAgreesOnObservations ==
    loaded # Idle =>
        /\ DOMAIN loaded.plain.cols = DOMAIN loaded.filled.cols
        /\ \A i \in 1..loaded.plain.n : \E j \in 1..loaded.filled.n : <<i, j>> \in CommonRows
        /\ \A r \in CommonRows : \A k \in DOMAIN loaded.plain.cols :
              notna(loaded.plain.cols[k][r[1]]) =>
                  loaded.filled.cols[k][r[2]] = loaded.plain.cols[k][r[1]]

\* a common date where the non-filled panel has a gap that the filled panel
\* fills, and a later common date where both hold a new observation
C16_Witness ==
    /\ loaded # Idle
    /\ "effr" \in DOMAIN loaded.plain.cols
    /\ \E r \in CommonRows :
          /\ loaded.plain.cols["effr"][r[1]] = NaN
          /\ loaded.filled.cols["effr"][r[2]] # NaN
    /\ \E r \in CommonRows :
          /\ r[2] > 1
          /\ notna(loaded.plain.cols["effr"][r[1]])
          /\ loaded.filled.cols["effr"][r[2]] # loaded.filled.cols["effr"][r[2] - 1]

-----------------------------------------------------------------------------
(* Properties of the statistics calculator *)

\* the percent change of v over its predecessor b, b not zero
PercentOf(v, b) == Num(Quot((v - b) * 100, b))

\* C17: a percent-change stat with period p holds (v_i - v_(i-p)) / v_(i-p) * 100
\* at row i when both endpoints are present and v_(i-p) is not zero, and no
\* value otherwise; and no alert context holds an infinite value.
C17_PercentChangeUndefinedOnZero ==
    /\ ctxIn # Idle =>
          \A c \in DOMAIN ctxIn.raw.cols : \A x \in DOMAIN config.metric_changes :
              LET d == config.metric_changes[x]
                  col == ctxIn.raw.cols[c]
              IN  d.type = "pct_change" =>
                      \A i \in 1..ctxIn.raw.n :
                          ctxIn.df.cols[c \o "_" \o d.name][i] =
                              IF /\ i - d.periods >= 1
                                 /\ col[i].k = "num"
                                 /\ col[i - d.periods].k = "num"
                                 /\ col[i - d.periods].v # 0
                              THEN PercentOf(col[i].v, col[i - d.periods].v)
                              ELSE NaN
    /\ ctxOut # Idle =>
          \A name \in DOMAIN ctxOut.result.context :
              ctxOut.result.context[name].k \notin {"inf", "-inf"}

-----------------------------------------------------------------------------
(* SpecMetrics: check_alerts.py main loads the panel and computes the        *)
(* derived metrics and the statistics of one configuration                   *)

DerivedDefs ==
    {[key |-> "spread", expr |-> "effr - iorb"],
     [key |-> "spread", expr |-> "bogus + 1"],
     [key |-> "twice", expr |-> "spread * 2"],
     [key |-> "same", expr |-> "spread != spread"],
     [key |-> "broken", expr |-> "effr /"]}

\* metrics.derived: up to two definitions, no key twice
DerivedLists ==
    {<<>>} \cup {<<d>> : d \in DerivedDefs}
           \cup {x \in DerivedDefs \X DerivedDefs : x[1].key # x[2].key}

\* metrics.rolling: a mean, a standard deviation and a z-score of one window
RollingDefs(w) ==
    <<[name |-> "ma" \o ToString(w), type |-> "rolling_mean", window |-> w],
      [name |-> "std" \o ToString(w), type |-> "rolling_std", window |-> w],
      [name |-> "zscore" \o ToString(w), type |-> "zscore", window |-> w]>>

\* configurations with derived metrics only, and configurations with stats
\* over the raw series and at most the spread
MetricsConfigs ==
    [alerts : {<<>>}, metric_changes : {<<>>}, derived : DerivedLists, metric_rolling : {<<>>}]
    \cup [alerts : {<<>>}, metric_changes : {<<>>, StdChanges},
          derived : {<<>>, <<[key |-> "spread", expr |-> "effr - iorb"]>>},
          metric_rolling : {<<>>} \cup {RollingDefs(w) : w \in 1..MaxWindow}]

\* what load_base_data returns: effr, and iorb at 1 on every date or without data
MetricsPanels ==
    {EmptyPanel} \cup
    UNION {{OneColumn("effr", cells) : cells \in [1..n -> Cells]}
           \cup {[n |-> n, cols |-> ("effr" :> cells) @@ ("iorb" :> [i \in 1..n |-> Num(1)])] :
                    cells \in [1..n -> Cells]} : n \in 1..MaxRows}

InitMetrics ==
    /\ InitStore
    /\ config \in MetricsConfigs
    /\ job = [notify_callback |-> FALSE, severity_filter |-> {}]
    /\ hashOf = [p \in Procs |-> <<>>]

\* df = load_base_data(config, conn, ...)
LoadRaw ==
    /\ ctxIn = Idle
    /\ \E raw \in MetricsPanels : ctxIn' = [raw |-> raw, df |-> raw, stage |-> "loaded"]
    /\ UNCHANGED <<config, hashOf, alert_state, alerts_log, notified, printed, job, passNo,
                   restarts, hist, idsSeen, crashed, caps, pc, cur, ctxOut, shadow>>
    /\ UNCHANGED storeVars

\* df = calculate_all_metrics(df, config)
CalculateAllMetrics ==
    /\ ctxIn # Idle
    /\ ctxIn.stage = "loaded"
    /\ ctxIn' = [ctxIn EXCEPT !.df = calculate_all_metrics(ctxIn.raw, config),
                              !.stage = "calculated"]
    /\ UNCHANGED <<config, hashOf, alert_state, alerts_log, notified, printed, job, passNo,
                   restarts, hist, idsSeen, crashed, caps, pc, cur, ctxOut, shadow>>
    /\ UNCHANGED storeVars

NextMetrics == LoadRaw \/ CalculateAllMetrics

SpecMetrics == InitMetrics /\ [][NextMetrics]_vars

\* the statistics of the loaded panel have been computed
Calculated == ctxIn # Idle /\ ctxIn.stage = "calculated" /\ ~IsEmpty(ctxIn.raw)

DerivedKeys == {config.derived[x].key : x \in DOMAIN config.derived}

Reverse(s) == [i \in DOMAIN s |-> s[Len(s) + 1 - i]]

\* the column of an expression over the raw panel alone
OverRaw(expr) ==
    IF DataFrameEval(ParseExpr(expr), ctxIn.raw).exc = "none"
    THEN DataFrameEval(ParseExpr(expr), ctxIn.raw).val
    ELSE [i \in 1..ctxIn.raw.n |-> NaN]

\* C11: every derived column is what its expression gives over the raw panel
\* alone, whatever derived columns were computed before it, and so the derived
\* columns are the same when the definitions are listed in the reverse order.
C11_DerivedOrderIndependent ==
    Calculated =>
        /\ \A x \in DOMAIN config.derived :
              ctxIn.df.cols[config.derived[x].key] = OverRaw(config.derived[x].expr)
        /\ \A key \in DerivedKeys :
              ctxIn.df.cols[key] =
                  calculate_all_metrics(ctxIn.raw,
                                        [config EXCEPT !.derived = Reverse(@)]).cols[key]

\* the definitions but the x-th
Without(defs, x) == [i \in 1..(Len(defs) - 1) |-> IF i < x THEN defs[i] ELSE defs[i + 1]]

\* the evaluation of the x-th derived definition failed
FailedAt(x) ==
    DataFrameEval(ParseExpr(config.derived[x].expr),
                  calculate_derived(ctxIn.raw,
                                    [config EXCEPT !.derived = SubSeq(@, 1, x - 1)])).exc # "none"

\* the derived metrics of the panel had the x-th definition not been configured
NotConfigured(x) == calculate_derived(ctxIn.raw, [config EXCEPT !.derived = Without(@, x)])

\* C12: a derived definition whose evaluation fails gives a column of no-value
\* on every row, and every raw column and every other derived column holds
\* what it would hold had the failing definition not been configured.
C12_FailingDerivedIsContained ==
    Calculated =>
        \A x \in DOMAIN config.derived :
            FailedAt(x) =>
                /\ \A i \in 1..ctxIn.raw.n : ctxIn.df.cols[config.derived[x].key][i] = NaN
                /\ \A c \in (DOMAIN ctxIn.raw.cols \cup DerivedKeys) \ {config.derived[x].key} :
                      /\ c \in DOMAIN NotConfigured(x).cols
                      /\ ctxIn.df.cols[c] = NotConfigured(x).cols[c]

RECURSIVE Total(_)
Total(ns) == IF ns = <<>> THEN 0 ELSE Head(ns) + Total(Tail(ns))

\* the values of the window rows ending at row i of a column
Trailing(col, i, window) == [j \in 1..window |-> col[i - window + j].v]

\* each value of a window times the window size, less the sum: its deviation
\* from the mean, in units of 1 / window
Deviations(ns) == [j \in DOMAIN ns |-> (Len(ns) * ns[j] - Total(ns)) * (Len(ns) * ns[j] - Total(ns))]

\* cell is the arithmetic mean of ns
IsMean(cell, ns) == cell.k = "rat" /\ cell.v * Len(ns) = Total(ns) * cell.d

\* cell is the sample standard deviation of ns, of two values or more
IsSampleStd(cell, ns) ==
    IF Total(Deviations(ns)) = 0 THEN cell = Num(0)
    ELSE /\ cell.k = "sqrt"
         /\ cell.v * (Len(ns) * Len(ns) * (Len(ns) - 1)) = cell.d * Total(Deviations(ns))

\* the columns of the calculated panel that have stats and no missing value
FullColumns ==
    {c \in DOMAIN ctxIn.raw.cols \cup DerivedKeys :
        \A i \in 1..ctxIn.raw.n : ctxIn.df.cols[c][i].k = "num"}

RollingOf(types) ==
    {d \in Range(config.metric_rolling) : d.type \in types}

\* C18 as stated: for a moving average or a moving standard deviation of window
\* W over a column without missing values, the first W-1 rows are no-value and
\* every row from the W-th on holds the value over the trailing W rows.
C18_WindowedStats ==
    Calculated =>
        \A c \in FullColumns : \A d \in RollingOf({"rolling_mean", "rolling_std"}) :
            \A i \in 1..ctxIn.raw.n :
                LET cell == ctxIn.df.cols[c \o "_" \o d.name][i]
                    ns == Trailing(ctxIn.df.cols[c], i, d.window)
                IN  IF i < d.window THEN cell = NaN
                    ELSE /\ cell # NaN
                         /\ d.type = "rolling_mean" => IsMean(cell, ns)
                         /\ d.type = "rolling_std" /\ d.window > 1 => IsSampleStd(cell, ns)

\* C18, amended: the same for every moving average and for every moving standard
\* deviation of window 2 or more; a moving standard deviation of window 1 is
\* no-value on every row.
C18_WindowedStatsOfSamples ==
    Calculated =>
        \A c \in FullColumns : \A d \in RollingOf({"rolling_mean", "rolling_std"}) :
            \A i \in 1..ctxIn.raw.n :
                LET cell == ctxIn.df.cols[c \o "_" \o d.name][i]
                    ns == Trailing(ctxIn.df.cols[c], i, d.window)
                IN  IF i < d.window \/ (d.type = "rolling_std" /\ d.window = 1) THEN cell = NaN
                    ELSE /\ cell # NaN
                         /\ d.type = "rolling_mean" => IsMean(cell, ns)
                         /\ d.type = "rolling_std" => IsSampleStd(cell, ns)

\* a moving average and a non-zero moving standard deviation of window 2 past
\* the first row of a column without missing values
C18_Witness ==
    /\ Calculated
    /\ "effr" \in FullColumns
    /\ \E d \in RollingOf({"rolling_std"}) :
          /\ d.window = 2
          /\ ctxIn.raw.n > 2
          /\ ctxIn.df.cols["effr_" \o d.name][1] = NaN
          /\ ctxIn.df.cols["effr_" \o d.name][3].k = "sqrt"
    /\ \E d \in RollingOf({"rolling_mean"}) : ctxIn.df.cols["effr_" \o d.name][3].k = "rat"

\* C19: a z-score of window W is no-value at every row whose trailing W values
\* are all equal, and at every other row with W trailing values it is the
\* value less the moving average, over the moving standard deviation of the
\* same window; it is never infinite.
C19_ZScoreZeroVarianceGuard ==
    Calculated =>
        \A c \in DOMAIN ctxIn.raw.cols \cup DerivedKeys : \A d \in RollingOf({"zscore"}) :
            \A i \in d.window..ctxIn.raw.n :
                LET cell == ctxIn.df.cols[c \o "_" \o d.name][i]
                    ns == Trailing(ctxIn.df.cols[c], i, d.window)
                IN  /\ cell.k \notin {"inf", "-inf"}
                    /\ (\A j \in (i - d.window + 1)..i : ctxIn.df.cols[c][j].k = "num") =>
                          IF \A j, l \in DOMAIN ns : ns[j] = ns[l] THEN cell = NaN
                          ELSE /\ cell.k = "zscore"
                               /\ cell.v * Len(ns) = (Len(ns) * ns[Len(ns)] - Total(ns)) * cell.d
                               /\ IsSampleStd(cell.s, ns)

\* a z-score of window 2 or more over a constant window, and one over a window
\* that is not constant
C19_Witness ==
    /\ Calculated
    /\ \E d \in RollingOf({"zscore"}) : \E i, l \in d.window..ctxIn.raw.n :
          /\ d.window > 1
          /\ \A j \in (i - d.window + 1)..i : ctxIn.raw.cols["effr"][j] = Num(1)
          /\ ctxIn.df.cols["effr_" \o d.name][i] = NaN
          /\ ctxIn.df.cols["effr_" \o d.name][l].k = "zscore"

\* the names of the configured change and rolling stats
StatNames ==
    {config.metric_changes[x].name : x \in DOMAIN config.metric_changes}
        \cup {config.metric_rolling[x].name : x \in DOMAIN config.metric_rolling}

\* C20: the columns of the calculated panel are the raw keys that have data, the
\* derived keys, and base_stat for each of those bases and each configured
\* change or rolling stat; no other column exists and none is missing.
C20_ColumnNames ==
    Calculated =>
        DOMAIN ctxIn.df.cols =
            (DOMAIN ctxIn.raw.cols \cup DerivedKeys)
                \cup {base \o "_" \o stat : base \in DOMAIN ctxIn.raw.cols \cup DerivedKeys,
                                           stat \in StatNames}

\* a panel with a raw and a derived column and the change and rolling stats of both
C20_Witness ==
    /\ Calculated
    /\ {"effr", "iorb", "spread", "effr_d1", "spread_pct1", "spread_zscore2", "iorb_ma2"}
           \subseteq DOMAIN ctxIn.df.cols

-----------------------------------------------------------------------------
(* SpecOps: the scheduler's and the command line's calls of                  *)
(* check_alerts_with_state, one at a time, each with its own callback and    *)
(* severity filter, over a store and a callback that may fail                *)

ExitRule == "abs.__self__.__import__('sys').exit(1)"

\* a critical threshold alert, and a second alert of either severity whose
\* rule needs a second observation or leaves the interpreter
OpsConfigs ==
    [alerts : {<<a, b>> : a \in AlertDefs({"effr"}, {"value > 1"}),
                          b \in AlertDefs({"effr"}, {"d1 > 0", ExitRule})},
     metric_changes : {StdChanges}]

\* what load_base_data returns to a call: nothing, one observation, or two
OpsPanels ==
    {EmptyPanel, OneColumn("effr", <<Num(0)>>), OneColumn("effr", <<Num(0), Num(MaxVal)>>)}

\* the points at which a call can fail: update_alert_state, log_alert_transition
\* and the callback
Faults(cfg) ==
    {NoFault} \cup [alert : Range(cfg.alerts), point : {"update", "log", "notify"}]

\* the callers: the scheduler's job and the command line (a callback and the
\* critical filter), and callers of the function with and without a callback
OpsJobs ==
    {[notify_callback |-> TRUE, severity_filter |-> {"critical"}],
     [notify_callback |-> TRUE, severity_filter |-> {}],
     [notify_callback |-> FALSE, severity_filter |-> {}]}

\* the env of a call with callback, filter and fault j over the panel raw
CallEnv(raw, j) ==
    [df |-> calculate_all_metrics(raw, config), h |-> hashOf[1], pass |-> passNo + 1,
     notify_callback |-> j.notify_callback, severity_filter |-> j.severity_filter,
     fault |-> j.fault]

InitOps ==
    /\ InitStore
    /\ config \in OpsConfigs
    /\ config.alerts[1].severity = "critical"
    /\ job = [notify_callback |-> FALSE, severity_filter |-> {}]
    /\ \E h \in HashFns(config) : h[config.alerts[1].rule] = 12345 /\ hashOf = [p \in Procs |-> h]

\* the call returned or raised, leaving S; cur[1] keeps the exception that left
\* it and the failure that raised it
Returned(S, raw, j) ==
    /\ Commit(S)
    /\ job' = [notify_callback |-> j.notify_callback, severity_filter |-> j.severity_filter]
    /\ ctxIn' = [raw |-> raw, df |-> calculate_all_metrics(raw, config)]
    /\ cur' = [cur EXCEPT ![1] = [exc |-> S.exc,
                                  fault |-> IF S.exc \in {"OperationalError", "CallbackError"}
                                            THEN j.fault ELSE NoFault]]

\* one call of check_alerts_with_state, from start to return or to the
\* exception that ends it
CheckAlerts ==
    /\ passNo < MaxPasses
    /\ \E raw \in OpsPanels :
       \E j \in {[notify_callback |-> c.notify_callback,
                  severity_filter |-> c.severity_filter, fault |-> f] :
                     c \in OpsJobs, f \in Faults(config)} :
          /\ j.fault # NoFault => Cardinality(crashed) < MaxFaults
          /\ Returned(check_alerts_with_state(StoreOf, config, CallEnv(raw, j)), raw, j)
    /\ passNo' = passNo + 1
    /\ UNCHANGED <<config, hashOf, restarts, pc, ctxOut, shadow>>
    /\ UNCHANGED storeVars

NextOps == CheckAlerts \/ Restart

SpecOps == InitOps /\ [][NextOps]_vars

\* the identity of an alert definition in the running interpreter
IdOf(alert_def) == make_alert_id(alert_def, hashOf[1])

\* the step is a call of check_alerts_with_state
IsCall == passNo' = passNo + 1

\* the step leaves the row, the log rows and the notifications of id as they were
Untouched(id) ==
    /\ SelectRow(alert_state', id) = SelectRow(alert_state, id)
    /\ About(alerts_log', id) = About(alerts_log, id)
    /\ About(notified', id) = About(notified, id)

\* the alerts after position k whose identity no alert up to k has
After(k) ==
    {config.alerts[i] : i \in {i \in DOMAIN config.alerts :
        i > k /\ \A l \in 1..k : IdOf(config.alerts[l]) # IdOf(config.alerts[i])}}

\* a call in which a store operation failed raised the error to its caller, did
\* not repeat the operation, and left the alerts after the failing one as
\* they were
StoreFailureEndsCall ==
    (IsCall /\ cur'[1].exc = "OperationalError") =>
        /\ passNo' \in crashed'
        /\ \A b \in After(CHOOSE k \in DOMAIN config.alerts :
                              config.alerts[k] = cur'[1].fault.alert) :
              /\ Untouched(IdOf(b))
              /\ \A i \in DOMAIN printed' : i > Len(printed) => printed'[i].rule # b.rule
        /\ cur'[1].fault.point = "update" /\ cur'[1].fault.alert = config.alerts[1] =>
              Untouched(IdOf(config.alerts[1]))
        /\ cur'[1].fault.point = "log" =>
              About(alerts_log', IdOf(cur'[1].fault.alert)) =
                  About(alerts_log, IdOf(cur'[1].fault.alert))

\* the exceptions that leave a call are those of the store and of the callback
OnlyStoreFailuresLeave ==
    cur[1] # Idle => cur[1].exc \in {"none", "OperationalError", "CallbackError"}

\* C21: a store failure in update_alert_state or log_alert_transition leaves
\* check_alerts_with_state as an exception, the operation is not retried and no
\* later alert is evaluated or written in that pass; a failure of one alert's
\* data or rule never leaves the call.
C21_OnlyStoreFailuresPropagate ==
    [][StoreFailureEndsCall]_vars /\ []OnlyStoreFailuresLeave

\* the number of times identity id has been written
Writes(h, id) == IF id \in DOMAIN h THEN Len(h[id]) ELSE 0

\* the positions of the alerts of identity id that the filter of the call lets through
Chain(id) ==
    {i \in DOMAIN config.alerts :
        /\ IdOf(config.alerts[i]) = id
        /\ job'.severity_filter # {} => config.alerts[i].severity \in job'.severity_filter}

\* the position of the alert that wrote identity id last in the call
LastWriter(id) ==
    CHOOSE i \in Chain(id) :
        Cardinality({l \in Chain(id) : l <= i}) = Writes(hist', id) - Writes(hist, id)

\* what evaluate_alert returns for the alert at position i over the panel of the call
ResultAt(i) == evaluate_alert(config.alerts[i], ctxIn'.df, hashOf[1]).result

\* C23: after a call has processed an alert, the alert_state row of its identity
\* holds state breach if and only if the alert was triggered in that call, and
\* the value of that call as last_value (none without data), whether or not
\* the state changed.
C23_WriteThrough ==
    [][IsCall =>
        \A id \in DOMAIN hist' :
            Writes(hist', id) > Writes(hist, id) =>
                SelectRow(alert_state', id) =
                    [state |-> IF ResultAt(LastWriter(id)).triggered THEN "breach" ELSE "ok",
                     last_value |-> ResultAt(LastWriter(id)).value]]_vars

\* an alert written twice whose state stayed ok and whose last value changed
C23_Witness ==
    \E id \in DOMAIN hist :
        /\ Len(hist[id]) > 1
        /\ About(alerts_log, id) = <<>>
        /\ alert_state[id] = [state |-> "ok", last_value |-> Num(0)]
        /\ ctxIn.raw = OneColumn("effr", <<Num(0)>>)
        /\ hist[id][Len(hist[id])].pass = passNo
        /\ hist[id][1].pass < passNo

\* the writes of identity id in the step that changed its state from `from` to `to`
ChangesIn(id, from, to) ==
    {i \in (Writes(hist, id) + 1)..Writes(hist', id) :
        /\ (IF hist'[id][i].was = NoRow.state THEN "ok" ELSE hist'[id][i].was) = from
        /\ (IF hist'[id][i].triggered THEN "breach" ELSE "ok") = to
        /\ from # to}

\* C25: every step keeps the rows of alerts_log with all their fields at their
\* positions and keeps every alert_state row's identity; the rows it adds are
\* rows of a call in which the state of the row's identity changed from the
\* row's from-state to its to-state, no more rows than such changes.
C25_AppendOnly ==
    [][/\ Len(alerts_log') >= Len(alerts_log)
       /\ SubSeq(alerts_log', 1, Len(alerts_log)) = alerts_log
       /\ DOMAIN alert_state \subseteq DOMAIN alert_state'
       /\ \A i \in (Len(alerts_log) + 1)..Len(alerts_log') :
             /\ IsCall
             /\ alerts_log'[i].pass = passNo'
             /\ ChangesIn(alerts_log'[i].alert_id, alerts_log'[i].state_from,
                          alerts_log'[i].state_to) # {}
             /\ Cardinality({l \in (Len(alerts_log) + 1)..Len(alerts_log') :
                                alerts_log'[l].alert_id = alerts_log'[i].alert_id})
                   <= Cardinality(UNION {ChangesIn(alerts_log'[i].alert_id, x[1], x[2]) :
                                            x \in {<<"ok", "breach">>, <<"breach", "ok">>}})]_vars

\* a log of two rows or more, written in different calls, over two rows of alert_state
C25_Witness ==
    /\ Len(alerts_log) > 1
    /\ alerts_log[1].pass < alerts_log[Len(alerts_log)].pass
    /\ Cardinality(DOMAIN alert_state) > 1

\* the state a write of an identity left and the state it found
StateAfter(e) == IF e.triggered THEN "breach" ELSE "ok"
StateBefore(e) == IF e.was = NoRow.state THEN "ok" ELSE e.was

\* the identities that were ever written or logged
Identities == DOMAIN alert_state \cup {alerts_log[i].alert_id : i \in DOMAIN alerts_log}

\* C26: for every identity, alerts_log has one row per change of its persisted
\* state, each row starts from the state the row before it went to (the first
\* from ok), and the newest row goes to the persisted state.
C26_StateAndLogAgree ==
    \A id \in Identities :
        LET rows == About(alerts_log, id)
        IN  /\ Len(rows) = Cardinality({i \in 1..Writes(hist, id) :
                                          StateBefore(hist[id][i]) # StateAfter(hist[id][i])})
            /\ \A i \in DOMAIN rows :
                  rows[i].state_from = IF i = 1 THEN "ok" ELSE rows[i - 1].state_to
            /\ SelectRow(alert_state, id).state =
                  IF rows = <<>> THEN "ok" ELSE rows[Len(rows)].state_to

\* the rows a step added to a table about identity id
Added(old, new, id) == {i \in (Len(old) + 1)..Len(new) : new[i].alert_id = id}

\* the callback raised in the call: the row and the ok->breach log row of the
\* alert were committed and the callback invoked before the exception left the
\* call, and the alerts after it were left as they were
RaisedAfterCommit ==
    cur'[1].exc = "CallbackError" =>
        LET id == IdOf(cur'[1].fault.alert)
        IN  /\ passNo' \in crashed'
            /\ SelectRow(alert_state', id).state = "breach"
            /\ \E i \in Added(alerts_log, alerts_log', id) :
                  alerts_log'[i].state_from = "ok" /\ alerts_log'[i].state_to = "breach"
            /\ Added(notified, notified', id) # {}
            /\ \A b \in After(CHOOSE k \in DOMAIN config.alerts :
                                  config.alerts[k] = cur'[1].fault.alert) : Untouched(IdOf(b))

\* the callback was invoked for the alert in the call before this one
NotifiedBefore(a) ==
    /\ a \in DOMAIN idsSeen
    /\ \E i \in DOMAIN notified : notified[i].pass = passNo /\ notified[i].alert_id \in idsSeen[a]

\* C27: a callback that raises leaves the new state and the ok->breach log row
\* committed and ends the call; and a call in which an alert is still triggered
\* whose breach the call before notified detects no transition of it and does
\* not invoke the callback for it.
C27_CommittedBeforeNotify ==
    [][IsCall =>
        /\ RaisedAfterCommit
        /\ \A i \in DOMAIN config.alerts :
              NotifiedBefore(config.alerts[i]) /\ ResultAt(i).triggered =>
                  /\ Added(alerts_log, alerts_log', IdOf(config.alerts[i])) = {}
                  /\ Added(notified, notified', IdOf(config.alerts[i])) = {}]_vars

\* the alerts the filter of the call keeps out
FilteredOut ==
    {a \in Range(config.alerts) :
        job'.severity_filter # {} /\ a.severity \notin job'.severity_filter}

\* C28: a call with a non-empty severity filter leaves the alert_state row (or
\* the absence of one), the log rows and the notifications of every alert of
\* another severity as they were and does not evaluate it; a call that returns
\* has written every alert the filter lets through, and with no filter every
\* configured alert.
C28_SeverityFilter ==
    [][IsCall =>
        /\ \A a \in FilteredOut :
              /\ Untouched(IdOf(a))
              /\ Writes(hist', IdOf(a)) = Writes(hist, IdOf(a))
              /\ (IF a \in DOMAIN idsSeen' THEN idsSeen'[a] ELSE {})
                    = (IF a \in DOMAIN idsSeen THEN idsSeen[a] ELSE {})
        /\ cur'[1].exc = "none" =>
              \A a \in Range(config.alerts) \ FilteredOut :
                  Writes(hist', IdOf(a)) > Writes(hist, IdOf(a))]_vars

\* a call with the critical filter that wrote the critical alert and left the
\* row of the warning alert, written by an earlier call, with its older value
C28_Witness ==
    /\ job.severity_filter = {"critical"}
    /\ cur[1] # Idle
    /\ cur[1].exc = "none"
    /\ config.alerts[2].severity = "warning"
    /\ IdOf(config.alerts[1]) \in DOMAIN alert_state
    /\ IdOf(config.alerts[2]) \in DOMAIN alert_state
    /\ alert_state[IdOf(config.alerts[1])].last_value = Num(0)
    /\ alert_state[IdOf(config.alerts[2])].last_value = Num(MaxVal)
    /\ hist[IdOf(config.alerts[1])][Writes(hist, IdOf(config.alerts[1]))].pass = passNo

\* what evaluate_alert does for the alert at position i over the panel of the call
EvAt(i) == evaluate_alert(config.alerts[i], ctxIn'.df, hashOf[1])

\* the call returns and its filter lets the alert at position i through
ProcessedAt(i) == cur'[1].exc = "none" /\ config.alerts[i] \notin FilteredOut

\* the alert at position i has no data in the call, or its rule raised
Undecided(i) == EvAt(i).result.error = NoDataMarker \/ EvAt(i).caught # "none"

\* the step added a log row of identity id from one state to another with a value
Logged(id, from, to, value) ==
    \E l \in Added(alerts_log, alerts_log', id) :
        /\ alerts_log'[l].state_from = from
        /\ alerts_log'[l].state_to = to
        /\ alerts_log'[l].value = value

\* a call over an alert whose state is ok and whose rule holds logs ok -> breach
\* and invokes the callback, if there is one
BreachAgain(i) ==
    (/\ ProcessedAt(i)
     /\ SelectRow(alert_state, IdOf(config.alerts[i])).state # "breach"
     /\ EvAt(i).result.triggered) =>
        /\ SelectRow(alert_state', IdOf(config.alerts[i])).state = "breach"
        /\ Logged(IdOf(config.alerts[i]), "ok", "breach", EvAt(i).result.value)
        /\ job'.notify_callback => Added(notified, notified', IdOf(config.alerts[i])) # {}

\* C29 as stated: a call over an alert in breach that has no data, or whose
\* rule fails, persists ok and logs breach -> ok with no value; a call over an
\* alert in ok whose rule holds logs ok -> breach and notifies.
C29_NoDataIsOk ==
    [][IsCall =>
        \A i \in DOMAIN config.alerts :
            /\ (/\ ProcessedAt(i)
                /\ SelectRow(alert_state, IdOf(config.alerts[i])).state = "breach"
                /\ Undecided(i)) =>
                  /\ SelectRow(alert_state', IdOf(config.alerts[i])).state = "ok"
                  /\ Logged(IdOf(config.alerts[i]), "breach", "ok", PyNone)
            /\ BreachAgain(i)]_vars

\* C29, amended: the breach -> ok row holds no value when the alert has no
\* data, and the alert's latest value when its rule fails.
C29_NoDataOrFailingRuleIsOk ==
    [][IsCall =>
        \A i \in DOMAIN config.alerts :
            /\ (/\ ProcessedAt(i)
                /\ SelectRow(alert_state, IdOf(config.alerts[i])).state = "breach"
                /\ Undecided(i)) =>
                  /\ SelectRow(alert_state', IdOf(config.alerts[i])).state = "ok"
                  /\ Logged(IdOf(config.alerts[i]), "breach", "ok",
                            IF EvAt(i).result.error = NoDataMarker THEN PyNone
                            ELSE EvAt(i).result.value)
                  /\ EvAt(i).result.error # NoDataMarker => EvAt(i).result.value # PyNone
            /\ BreachAgain(i)]_vars

\* an alert notified, then without data and logged breach -> ok with no value,
\* then with data again, logged ok -> breach and notified a second time
C29_Witness ==
    \E id \in DOMAIN alert_state :
        /\ Len(About(alerts_log, id)) = 3
        /\ About(alerts_log, id)[2].state_to = "ok"
        /\ About(alerts_log, id)[2].value = PyNone
        /\ About(alerts_log, id)[3].state_to = "breach"
        /\ Len(About(notified, id)) = 2
        /\ alert_state[id].state = "breach"

\* the stat column of the alert's metric that a change definition names
StatName(d) == config.alerts[1].key \o "_" \o d.name

\* what the two-tier lookup gives for a column: the cell at the latest date of
\* the metric if it is not missing, else the column's last non-missing cell
TwoTier(col, latest) ==
    IF col[latest].k # "nan" THEN col[latest] ELSE col[Max(Available(col))]

\* the configured stat d is in the context exactly when its column exists and
\* is not entirely missing, and then with the value of the two-tier lookup
LookedUp(d, context) ==
    IF StatName(d) \in DOMAIN ctxIn.df.cols /\ Available(ctxIn.df.cols[StatName(d)]) # {}
    THEN /\ d.name \in DOMAIN context
         /\ context[d.name] = TwoTier(ctxIn.df.cols[StatName(d)], Max(Observed))
    ELSE d.name \notin DOMAIN context

\* C24: every stat column of the alert's metric is looked up in two tiers, at
\* the metric's latest date and then at any date, and is left out only when it
\* does not exist or is entirely missing; value is the metric's cell at its
\* latest date.
C24_TwoTierLookup ==
    (ctxOut # Idle /\ Observed # {}) =>
        /\ ctxOut.result.context["value"]
              = ctxIn.df.cols[config.alerts[1].key][Max(Observed)]
        /\ \A d \in Range(config.metric_changes) : LookedUp(d, ctxOut.result.context)

-----------------------------------------------------------------------------
(* SpecCli: the commands that evaluate alerts without the scheduler:         *)
(* scripts/check_alerts.py (main), and evaluate_all_alerts as the JSON       *)
(* export and the dashboard call it.  Every run is a new interpreter.        *)

\* mutant: evaluation that persists the state it finds
Collected_Tracked(E, alert_def, ev) ==
    [S |-> [Seen(E.S, alert_def, ev) EXCEPT
               !.exc = ev.exc,
               !.alert_state = update_alert_state(@, ev.result.alert_id,
                                                  NewState(ev.result), ev.result.value).tbl],
     results |-> IF ev.exc = "none" THEN Append(E.results, ev.result) ELSE E.results]

\* result = evaluate_alert(alert_def, df); results.append(result)
Collected(E, alert_def, ev) ==
    [S |-> [Seen(E.S, alert_def, ev) EXCEPT !.exc = ev.exc],
     results |-> IF ev.exc = "none" THEN Append(E.results, ev.result) ELSE E.results]

\* for alert_def in config.alerts, until an exception leaves the loop
RECURSIVE EvaluateFrom(_, _, _, _)
EvaluateFrom(E, alerts, df, h) ==
    IF alerts = <<>> \/ E.S.exc # "none" THEN E
    ELSE EvaluateFrom(Collected(E, Head(alerts), evaluate_alert(Head(alerts), df, h)),
                      Tail(alerts), df, h)

\* [S, results]: what the call left behind and the list it returns
evaluate_all_alerts(S, cfg, df, h) ==
    EvaluateFrom([S |-> S, results |-> <<>>], cfg.alerts, df, h)

\* [r for r in results if r["triggered"]]
Triggered(E) == [E EXCEPT !.results = SelectSeq(@, LAMBDA r : r.triggered)]

get_current_breaches(S, cfg, df, h) == Triggered(evaluate_all_alerts(S, cfg, df, h))

\* the breaches grouped by severity
Grouped(E) ==
    [S |-> E.S,
     results |-> [sev \in {"critical", "warning", "info"} |->
                     SelectSeq(E.results, LAMBDA r : r.severity = sev)]]

get_breach_summary(S, cfg, df, h) == Grouped(get_current_breaches(S, cfg, df, h))

\* severity_filter or ["critical"]
OrCritical(severity_filter) == IF severity_filter # {} THEN severity_filter ELSE {"critical"}

\* the arguments main gives check_alerts_with_state
CliEnv(args, df, h, pass) ==
    [df |-> df, h |-> h, pass |-> pass, notify_callback |-> TRUE,
     severity_filter |-> OrCritical(IF args.critical THEN {"critical"} ELSE {})]

\* mutant: --dry-run ignored
Checked_Always(E, cfg, args, env) ==
    IF E.S.exc # "none" THEN E
    ELSE [E EXCEPT !.S = check_alerts_with_state(E.S, cfg, env)]

\* if not args.dry_run: check_alerts_with_state(...)
Checked(E, cfg, args, env) ==
    IF E.S.exc # "none" \/ args.dry_run THEN E
    ELSE [E EXCEPT !.S = check_alerts_with_state(E.S, cfg, env)]

\* main() of scripts/check_alerts.py after init_db, without --test-telegram
main(S, cfg, args, env) ==
    IF args.summary THEN get_breach_summary(S, cfg, env.df, env.h)
    ELSE Checked(evaluate_all_alerts(S, cfg, env.df, env.h), cfg, args, env)

\* the command lines: none, --critical, --dry-run, both, and --summary
CliArgs ==
    {a \in [dry_run : BOOLEAN, critical : BOOLEAN, summary : BOOLEAN] :
        a.summary => ~a.dry_run /\ ~a.critical}

\* the str hashes of a run: the first rule's is the same in every run, the
\* second rule's collides with it modulo HashMod or does not
CliHashFns(cfg) == {h \in HashFns(cfg) : h[cfg.alerts[1].rule] = 12345}

NoArgs == [dry_run |-> FALSE, critical |-> FALSE, summary |-> FALSE]

InitCli ==
    /\ InitStore
    /\ config \in OpsConfigs
    /\ config.alerts[1].severity = "critical"
    /\ job = [notify_callback |-> FALSE, severity_filter |-> {}]
    /\ \E h \in CliHashFns(config) : hashOf = [p \in Procs |-> h]

\* the run of command cmd ended, leaving E; cur[1] keeps the command line,
\* ctxOut what the evaluation returned
Ran(E, cmd, args, raw, df, h) ==
    /\ Commit(E.S)
    /\ hashOf' = [hashOf EXCEPT ![1] = h]
    /\ cur' = [cur EXCEPT ![1] = [cmd |-> cmd, args |-> args, exc |-> E.S.exc]]
    /\ ctxIn' = [raw |-> raw, df |-> df]
    /\ ctxOut' = [results |-> E.results]

\* python scripts/check_alerts.py [--dry-run] [--critical] [--summary]
Main ==
    /\ passNo < MaxPasses
    /\ \E args \in CliArgs, raw \in OpsPanels, h \in CliHashFns(config) :
          Ran(main(StoreOf, config, args,
                   CliEnv(args, calculate_all_metrics(raw, config), h, passNo + 1)),
              "check_alerts", args, raw, calculate_all_metrics(raw, config), h)
    /\ passNo' = passNo + 1
    /\ UNCHANGED <<config, job, restarts, pc, shadow>>
    /\ UNCHANGED storeVars

\* alert_results = evaluate_all_alerts() of the JSON export and the dashboard
EvaluateAllAlerts ==
    /\ passNo < MaxPasses
    /\ \E raw \in OpsPanels, h \in CliHashFns(config) :
          Ran(evaluate_all_alerts(StoreOf, config, calculate_all_metrics(raw, config), h),
              "export_json", NoArgs, raw, calculate_all_metrics(raw, config), h)
    /\ passNo' = passNo + 1
    /\ UNCHANGED <<config, job, restarts, pc, shadow>>
    /\ UNCHANGED storeVars

NextCli == Main \/ EvaluateAllAlerts

SpecCli == InitCli /\ [][NextCli]_vars

-----------------------------------------------------------------------------
(* Properties of the commands (SpecCli) *)

\* the step leaves the rows of alert_state, the log and the notifications alone
StoreUnchanged ==
    /\ alert_state' = alert_state
    /\ alerts_log' = alerts_log
    /\ notified' = notified

\* what evaluate_alert does for the alert at position i in the run's
\* interpreter over the run's panel
EvalOf(i) == evaluate_alert(config.alerts[i], ctxIn'.df, hashOf'[1])

\* the list the run's evaluate_all_alerts returned holds the evaluation of
\* every configured alert over the run's panel
AllEvaluated ==
    /\ Len(ctxOut'.results) = Len(config.alerts)
    /\ \A i \in DOMAIN config.alerts : ctxOut'.results[i] = EvalOf(i).result

Returns ==
    IF cur'[1].args.summary
    THEN UNION {Range(ctxOut'.results[sev]) : sev \in DOMAIN ctxOut'.results}
    ELSE Range(ctxOut'.results)

\* C30: evaluate_all_alerts (JSON export, dashboard) and get_breach_summary
\* (--summary) write no row of alert_state or alerts_log and notify nobody,
\* and every result they return has state_changed false and no
\* previous_state; alert_state changes only in check_alerts_with_state.
C30_EvaluationIsReadOnly ==
    [][IsCall =>
        /\ (cur'[1].cmd = "export_json" \/ cur'[1].args.summary) => StoreUnchanged
        /\ \A r \in Returns : ~r.state_changed /\ r.previous_state = "None"
        /\ cur'[1].args.summary =>
              \A i \in DOMAIN config.alerts :
                  EvalOf(i).result.triggered =>
                      EvalOf(i).result \in Range(ctxOut'.results[config.alerts[i].severity])
        /\ (cur'[1].cmd = "export_json" /\ cur'[1].exc = "none") => AllEvaluated
        /\ alert_state' # alert_state => hist' # hist]_vars

\* a summary that reports a breach the store does not hold, after a run that
\* wrote the store
C30_Witness ==
    /\ cur[1] # Idle
    /\ cur[1].args.summary
    /\ alerts_log # <<>>
    /\ \E r \in Range(ctxOut.results["critical"]) :
          SelectRow(alert_state, r.alert_id).state # "breach"

====
